---------------------------- MODULE Spec2Model ----------------------------
(***************************************************************************)
(* A model of DocumInt's document-structure extractor                      *)
(* (Backend/pdf_extractor.py) and hybrid retrieval engine                  *)
(* (Backend/src/retrieval/hybrid_retriever.py).                            *)
(*                                                                         *)
(* Texts are sequences of one-character strings, so that the code's        *)
(* string operations (strip, lower, re.sub, substring tests, difflib's     *)
(* SequenceMatcher) are computed character by character.  Font sizes are   *)
(* whole points; ratios are compared by cross-multiplication, scores of    *)
(* the retriever are exact multiples of 1/ScoreUnit.                       *)
(***************************************************************************)
EXTENDS Integers, Sequences, FiniteSets, TLC

VARIABLES
    \* validate_hierarchy called on its own
    hpc, h_outline, h_validated,
    \* extract_outline, one call on one document
    epc, doc, title, toc_outline, outline, result, steps, escaped,
    \* validate_and_clean_result applied twice
    cpc, c_input, c_once, c_twice,
    \* one HybridRetriever object and the last search on it
    spc, domain, embedding_model, bm25, chunks, chunk_embeddings, top_k, results, error,
    hybrid_scores, top_idx,
    \* _is_section_number and _get_heading_level called on a token
    npc, n_token, n_is_section, n_level,
    \* get_outline_from_toc, one call, one outer-loop iteration at a time
    tpc, t_page_text, t_entries, t_i, t_outline,
    \* extract_chunks_with_headings, one call
    kpc, k_pages, k_headings, k_chunks,
    \* the service of app.py: the persisted project, pdf_cache, the background tasks, the last response
    apc, a_meta, a_chunks, pdf_cache, a_tasks, a_response,
    \* one span classified by extract_outline
    gpc, g_el, g_score, g_level, g_left, g_first

hvars == <<hpc, h_outline, h_validated>>
evars == <<epc, doc, title, toc_outline, outline, result, steps, escaped>>
cvars == <<cpc, c_input, c_once, c_twice>>
svars == <<spc, domain, embedding_model, bm25, chunks, chunk_embeddings, top_k, results, error,
           hybrid_scores, top_idx>>
nvars == <<npc, n_token, n_is_section, n_level>>
tvars == <<tpc, t_page_text, t_entries, t_i, t_outline>>
kvars == <<kpc, k_pages, k_headings, k_chunks>>
avars == <<apc, a_meta, a_chunks, pdf_cache, a_tasks, a_response>>
gvars == <<gpc, g_el, g_score, g_level, g_left, g_first>>
xvars == <<nvars, tvars, kvars, avars, gvars>>
vars == <<hvars, evars, cvars, svars, xvars>>

-----------------------------------------------------------------------------
(* Values that stand for "nothing there" in the service *)

\* load_project_meta(...) is None: no meta.json
NoMeta == [exists |-> FALSE]
\* no request answered yet
NoResponse == [endpoint |-> "none"]
\* cache_key not in pdf_cache
Absent == [absent |-> TRUE]
\* retriever = None
NoRetriever == [none |-> TRUE]
\* no background task for the key
NoTask == [pc |-> "none"]
NoElement == [text |-> <<>>]

-----------------------------------------------------------------------------
(* Characters and Python's string primitives *)

UpperSeq == <<"A","B","C","D","E","F","G","H","I","J","K","L","M",
              "N","O","P","Q","R","S","T","U","V","W","X","Y","Z">>
LowerSeq == <<"a","b","c","d","e","f","g","h","i","j","k","l","m",
              "n","o","p","q","r","s","t","u","v","w","x","y","z">>
Upper == {UpperSeq[i] : i \in 1..26}
Lower == {LowerSeq[i] : i \in 1..26}
Digit == {"0","1","2","3","4","5","6","7","8","9"}
Space == {" ", "\n", "\t"}

IsUpper(c) == c \in Upper
IsAlpha(c) == c \in Upper \cup Lower
IsDigit(c) == c \in Digit
IsSpace(c) == c \in Space
\* \w of Python's re on str
IsWord(c) == IsAlpha(c) \/ IsDigit(c) \/ c = "_"

ToLower(c) == IF c \in Upper THEN LowerSeq[CHOOSE i \in 1..26 : UpperSeq[i] = c] ELSE c
\* str.lower()
Lowercase(s) == [i \in 1..Len(s) |-> ToLower(s[i])]

DigitVal(c) == CHOOSE n \in 0..9 : <<"0","1","2","3","4","5","6","7","8","9">>[n + 1] = c

RECURSIVE LStripIn(_, _)
\* the longest suffix of s that does not start with a character of cls
LStripIn(s, cls) == IF s # <<>> /\ Head(s) \in cls THEN LStripIn(Tail(s), cls) ELSE s

RECURSIVE RStripIn(_, _)
RStripIn(s, cls) ==
    IF s # <<>> /\ s[Len(s)] \in cls THEN RStripIn(SubSeq(s, 1, Len(s) - 1), cls) ELSE s

\* str.strip()
Strip(s) == RStripIn(LStripIn(s, Space), Space)
\* str.rstrip('.')
RStripDot(s) == RStripIn(s, {"."})

RECURSIVE CollapseSpace(_)
\* re.sub(r'\s+', ' ', s)
CollapseSpace(s) ==
    IF s = <<>> THEN <<>>
    ELSE IF IsSpace(Head(s)) THEN <<" ">> \o CollapseSpace(LStripIn(s, Space))
    ELSE <<Head(s)>> \o CollapseSpace(Tail(s))

\* s.startswith(p) at offset i (1-based): s[i..] starts with p
MatchAt(s, p, i) == i + Len(p) - 1 <= Len(s) /\ SubSeq(s, i, i + Len(p) - 1) = p
\* p in s
Contains(s, p) == \E i \in 1..(Len(s) + 1) : MatchAt(s, p, i)
EndsWith(s, p) == Len(p) <= Len(s) /\ SubSeq(s, Len(s) - Len(p) + 1, Len(s)) = p

\* str.isdigit() for the ASCII texts of the model
IsDigits(s) == s # <<>> /\ \A i \in 1..Len(s) : IsDigit(s[i])

RECURSIVE IntOf(_)
\* int(s) for a digit string
IntOf(s) == IF s = <<>> THEN 0 ELSE 10 * IntOf(SubSeq(s, 1, Len(s) - 1)) + DigitVal(s[Len(s)])

\* len(s.split()): the number of maximal runs of non-space characters
WordCount(s) ==
    Cardinality({i \in 1..Len(s) : ~IsSpace(s[i]) /\ (i = 1 \/ IsSpace(s[i - 1]))})

\* the end (exclusive, 1-based) of the longest run of characters satisfying P from i
RECURSIVE RunEnd(_, _, _)
RunEnd(s, i, cls) == IF i <= Len(s) /\ s[i] \in cls THEN RunEnd(s, i + 1, cls) ELSE i

-----------------------------------------------------------------------------
(* Hierarchy validation: PDFOutlineExtractor.validate_hierarchy *)

Levels == {"H1", "H2", "H3"}

\* level_counts and validated before the loop
HierInit == [validated |-> <<>>, H1 |-> 0, H2 |-> 0, H3 |-> 0]

\* one iteration of the loop with the H1 branch counting instead of resetting
HierStep_NoReset(st, item) ==
    IF item.level = "H1"
        THEN [st EXCEPT !.validated = Append(@, item), !.H1 = @ + 1]
    ELSE IF item.level = "H2"
        THEN IF st.H1 > 0 \/ st.validated = <<>>
                THEN [st EXCEPT !.validated = Append(@, item), !.H2 = @ + 1, !.H3 = 0]
                ELSE st
    ELSE IF item.level = "H3" /\ st.H2 > 0
        THEN [st EXCEPT !.validated = Append(@, item), !.H3 = @ + 1]
    ELSE st

\* one iteration of the loop that keeps a rejected H3 as an H2
HierStep_Demote(st, item) ==
    IF item.level = "H1"
        THEN [validated |-> Append(st.validated, item), H1 |-> 1, H2 |-> 0, H3 |-> 0]
    ELSE IF item.level = "H2"
        THEN IF st.H1 > 0 \/ st.validated = <<>>
                THEN [st EXCEPT !.validated = Append(@, item), !.H2 = @ + 1, !.H3 = 0]
                ELSE st
    ELSE IF item.level = "H3" /\ st.H2 > 0
        THEN [st EXCEPT !.validated = Append(@, item), !.H3 = @ + 1]
    ELSE [st EXCEPT !.validated = Append(@, [item EXCEPT !.level = "H2"]),
                    !.H2 = @ + 1]

\* one iteration of the loop body
HierStep(st, item) ==
    IF item.level = "H1"
        THEN [validated |-> Append(st.validated, item), H1 |-> 1, H2 |-> 0, H3 |-> 0]
    ELSE IF item.level = "H2"
        THEN IF st.H1 > 0 \/ st.validated = <<>>
                THEN [st EXCEPT !.validated = Append(@, item), !.H2 = @ + 1, !.H3 = 0]
                ELSE st
    ELSE IF item.level = "H3" /\ st.H2 > 0
        THEN [st EXCEPT !.validated = Append(@, item), !.H3 = @ + 1]
    ELSE st

RECURSIVE HierFold(_, _)
HierFold(st, items) ==
    IF items = <<>> THEN st ELSE HierFold(HierStep(st, Head(items)), Tail(items))

validate_hierarchy(items) == HierFold(HierInit, items).validated

-----------------------------------------------------------------------------
(* Heading classification: PDFOutlineExtractor.detect_heading_level *)

AtCls(s, i, cls) == i >= 1 /\ i <= Len(s) /\ s[i] \in cls
\* [A-Z] and [a-z] under re.IGNORECASE (ic) or not
ClsAZ(ic) == IF ic THEN Upper \cup Lower ELSE Upper
Clsaz(ic) == IF ic THEN Upper \cup Lower ELSE Lower
ClsIVX(ic) == IF ic THEN {"I","V","X","i","v","x"} ELSE {"I","V","X"}

\* \s+ from position i, then one character of cls
SpacesThen(s, i, cls) == LET f == RunEnd(s, i, Space) IN f > i /\ AtCls(s, f, cls)

RECURSIVE DottedEnd(_, _, _)
\* the position after \d+(\.\d+){n-1} matched from i, or 0 when it does not match
DottedEnd(s, i, n) ==
    LET e == RunEnd(s, i, Digit) IN
    IF e = i THEN 0
    ELSE IF n = 1 THEN e
    ELSE IF AtCls(s, e, {"."}) THEN DottedEnd(s, e + 1, n - 1)
    ELSE 0

\* ^\d+(\.\d+){n-1}\.?\s+[A-Z]
MatchNumbered(s, n, ic) ==
    LET e == DottedEnd(s, 1, n) IN
    /\ e # 0
    /\ SpacesThen(s, IF AtCls(s, e, {"."}) THEN e + 1 ELSE e, ClsAZ(ic))

\* ^[IVX]+\.\s+[A-Z]
MatchRoman(s, ic) ==
    LET e == RunEnd(s, 1, ClsIVX(ic)) IN
    e > 1 /\ AtCls(s, e, {"."}) /\ SpacesThen(s, e + 1, ClsAZ(ic))

\* ^[IVX]+\.\s
MatchRomanDot(s, ic) ==
    LET e == RunEnd(s, 1, ClsIVX(ic)) IN
    e > 1 /\ AtCls(s, e, {"."}) /\ AtCls(s, e + 1, Space)

\* ^[A-Z]\.\s+[A-Z]
MatchLettered(s, ic) ==
    AtCls(s, 1, ClsAZ(ic)) /\ AtCls(s, 2, {"."}) /\ SpacesThen(s, 3, ClsAZ(ic))

\* ^(kw1|kw2|...)\s+<cls>, case-insensitively (kws are given in lower case)
MatchKeywordThen(s, kws, cls) ==
    \E kw \in kws :
        /\ Len(s) >= Len(kw)
        /\ Lowercase(SubSeq(s, 1, Len(kw))) = kw
        /\ SpacesThen(s, Len(kw) + 1, cls)

\* ^[A-Z][A-Z\s]{lo,hi}$
MatchAllCaps(s, lo, hi, ic) ==
    /\ Len(s) - 1 >= lo /\ Len(s) - 1 <= hi
    /\ AtCls(s, 1, ClsAZ(ic))
    /\ \A i \in 2..Len(s) : s[i] \in ClsAZ(ic) \cup Space

\* ^[A-Z][a-z]+(\s+[A-Z][a-z]+){1,8}$
MatchTitleCase(s, ic) ==
    /\ s # <<>> /\ ~IsSpace(s[1]) /\ ~IsSpace(s[Len(s)])
    /\ \A i \in 1..Len(s) :
          IF IsSpace(s[i]) THEN TRUE
          ELSE IF i = 1 \/ IsSpace(s[i - 1])
               THEN s[i] \in ClsAZ(ic) /\ AtCls(s, i + 1, Clsaz(ic))
               ELSE s[i] \in Clsaz(ic)
    /\ WordCount(s) >= 2 /\ WordCount(s) <= 9

ChapterWords == {<<"c","h","a","p","t","e","r">>,
     <<"s","e","c","t","i","o","n">>,
     <<"p","a","r","t">>,
     <<"a","p","p","e","n","d","i","x">>}
H1Words == {<<"c","h","a","p","t","e","r">>,
     <<"p","a","r","t">>,
     <<"s","e","c","t","i","o","n">>}
QuestionWords == {<<"w","h","a","t">>,
     <<"h","o","w">>,
     <<"w","h","y">>,
     <<"w","h","e","n">>,
     <<"w","h","e","r","e">>,
     <<"w","h","o">>}
SectionNames == {<<"c","o","n","c","l","u","s","i","o","n">>,
     <<"s","u","m","m","a","r","y">>,
     <<"a","b","s","t","r","a","c","t">>,
     <<"i","n","t","r","o","d","u","c","t","i","o","n">>,
     <<"b","a","c","k","g","r","o","u","n","d">>,
     <<"m","e","t","h","o","d","o","l","o","g","y">>,
     <<"r","e","s","u","l","t","s">>,
     <<"d","i","s","c","u","s","s","i","o","n">>}

\* ^(Conclusion|Summary|...|Discussion)s?$, case-insensitively
MatchSectionName(s) ==
    \E w \in SectionNames : Lowercase(s) = w \/ Lowercase(s) = w \o <<"s">>

\* any(re.match(pattern, clean_text, re.IGNORECASE) for pattern in heading_patterns)
has_heading_pattern(s) ==
    \/ MatchNumbered(s, 1, TRUE)
    \/ MatchNumbered(s, 2, TRUE)
    \/ MatchNumbered(s, 3, TRUE)
    \/ MatchRoman(s, TRUE)
    \/ MatchLettered(s, TRUE)
    \/ MatchKeywordThen(s, ChapterWords, Digit)
    \/ MatchAllCaps(s, 3, 50, TRUE)
    \/ MatchTitleCase(s, TRUE)
    \/ MatchKeywordThen(s, QuestionWords, ClsAZ(TRUE))
    \/ MatchSectionName(s)

\* font_size / avg_font_size >= tenths/10, the baseline being avg.num / avg.den
\* (font_ratio is 1.0 when the baseline is not positive)
RatioGE(font_size, avg, tenths) ==
    IF avg.num > 0 THEN 10 * font_size * avg.den >= tenths * avg.num ELSE 10 >= tenths

FlagBit(flags, bit) == (flags \div (2 ^ bit)) % 2 = 1

MinTextLen == 2
MaxTextLen == 300
HeadingThreshold == 4

\* is_left_aligned = x_position < 0.1, x_position being num/den
is_left_aligned(x_position) == 10 * x_position.num < x_position.den

\* "First page bonus": if page_num == 1
first_page_bonus(page_num) == page_num = 1

BoldPoints == 2

\* the score of a span that passes the length tests, with a bold flag worth
\* three points
HeadingScore_BoldThree(text, font_size, font_flags, avg, x_position, page_num) ==
    LET clean_text == Strip(text)
        word_count == WordCount(clean_text)
    IN  (IF RatioGE(font_size, avg, 15) THEN 3
         ELSE IF RatioGE(font_size, avg, 13) THEN 2
         ELSE IF RatioGE(font_size, avg, 11) THEN 1 ELSE 0)
      + (IF FlagBit(font_flags, 4) THEN BoldPoints + 1 ELSE 0)
      + (IF FlagBit(font_flags, 1) THEN 1 ELSE 0)
      + (IF has_heading_pattern(clean_text) THEN 3 ELSE 0)
      + (IF is_left_aligned(x_position) THEN 1 ELSE 0)
      + (IF 1 <= word_count /\ word_count <= 20 THEN 1 ELSE 0)
      + (IF first_page_bonus(page_num) THEN 1 ELSE 0)

\* the score of a span that passes the length tests
HeadingScore(text, font_size, font_flags, avg, x_position, page_num) ==
    LET clean_text == Strip(text)
        word_count == WordCount(clean_text)
    IN  (IF RatioGE(font_size, avg, 15) THEN 3
         ELSE IF RatioGE(font_size, avg, 13) THEN 2
         ELSE IF RatioGE(font_size, avg, 11) THEN 1 ELSE 0)
      + (IF FlagBit(font_flags, 4) THEN BoldPoints ELSE 0)
      + (IF FlagBit(font_flags, 1) THEN 1 ELSE 0)
      + (IF has_heading_pattern(clean_text) THEN 3 ELSE 0)
      + (IF is_left_aligned(x_position) THEN 1 ELSE 0)
      + (IF 1 <= word_count /\ word_count <= 20 THEN 1 ELSE 0)
      + (IF first_page_bonus(page_num) THEN 1 ELSE 0)

NoLevel == "None"

\* the level ("H1", "H2", "H3") or NoLevel
detect_heading_level(text, font_size, font_flags, avg, x_position, page_num) ==
    LET clean_text == Strip(text)
        score == HeadingScore(text, font_size, font_flags, avg, x_position, page_num)
    IN  IF Len(clean_text) < MinTextLen \/ Len(clean_text) > MaxTextLen THEN NoLevel
        ELSE IF score >= HeadingThreshold
             THEN IF \/ RatioGE(font_size, avg, 16)
                     \/ MatchKeywordThen(clean_text, H1Words, Digit)
                     \/ MatchAllCaps(clean_text, 5, Len(clean_text), FALSE)
                     THEN "H1"
                  ELSE IF \/ RatioGE(font_size, avg, 13)
                          \/ MatchNumbered(clean_text, 1, FALSE)
                          \/ MatchRomanDot(clean_text, FALSE)
                     THEN "H2"
                  ELSE "H3"
        ELSE NoLevel

-----------------------------------------------------------------------------
(* difflib.SequenceMatcher(None, a, b).ratio(), without junk (isjunk is None,  *)
(* and the automatic junk heuristic needs 200 or more characters)              *)

\* a[i .. i+k-1] = b[j .. j+k-1]
BlockAt(a, b, i, j, k) ==
    /\ i + k - 1 <= Len(a) /\ j + k - 1 <= Len(b)
    /\ \A d \in 0..(k - 1) : a[i + d] = b[j + d]

\* find_longest_match over the whole of a and b: the longest common block, the
\* one starting earliest in a and, of those, earliest in b; size 0 when none
find_longest_match(a, b) ==
    LET m == IF Len(a) < Len(b) THEN Len(a) ELSE Len(b)
        sizes == {k \in 1..m : \E i \in 1..Len(a), j \in 1..Len(b) : BlockAt(a, b, i, j, k)}
    IN  IF sizes = {} THEN [i |-> 1, j |-> 1, size |-> 0]
        ELSE LET k  == CHOOSE x \in sizes : \A y \in sizes : y <= x
                 is == {i \in 1..Len(a) : \E j \in 1..Len(b) : BlockAt(a, b, i, j, k)}
                 i0 == CHOOSE x \in is : \A y \in is : x <= y
                 js == {j \in 1..Len(b) : BlockAt(a, b, i0, j, k)}
                 j0 == CHOOSE x \in js : \A y \in js : x <= y
             IN  [i |-> i0, j |-> j0, size |-> k]

RECURSIVE MatchingChars(_, _)
\* the sum of the sizes of get_matching_blocks(): the longest block, then the
\* same to its left and to its right
MatchingChars(a, b) ==
    IF a = <<>> \/ b = <<>> THEN 0
    ELSE LET m == find_longest_match(a, b) IN
         IF m.size = 0 THEN 0
         ELSE m.size
              + MatchingChars(SubSeq(a, 1, m.i - 1), SubSeq(b, 1, m.j - 1))
              + MatchingChars(SubSeq(a, m.i + m.size, Len(a)), SubSeq(b, m.j + m.size, Len(b)))

\* ratio() >= num/den, ratio() being 2.0 * matches / (len(a) + len(b)), 1.0 for two
\* empty sequences
RatioAtLeast(a, b, num, den) ==
    IF Len(a) + Len(b) = 0 THEN den >= num
    ELSE 2 * MatchingChars(a, b) * den >= num * (Len(a) + Len(b))

\* ratio() > num/den
RatioAbove(a, b, num, den) ==
    IF Len(a) + Len(b) = 0 THEN den > num
    ELSE 2 * MatchingChars(a, b) * den > num * (Len(a) + Len(b))

-----------------------------------------------------------------------------
(* The cleaning pass: PDFOutlineExtractor.validate_and_clean_result *)

\* Python's None where a text is expected
PyNone == <<"None">>
\* bool(s) for a text or None
Truthy(s) == s # PyNone /\ s # <<>>

\* the class [\d\.\)\]\-\s]
EdgeJunk == Digit \cup Space \cup {".", ")", "]", "-"}

\* re.sub(r'[^\w\s]', '', s)
DropSpecial(s) == SelectSeq(s, LAMBDA c : IsWord(c) \/ IsSpace(c))

normalize_text(text) ==
    Strip(DropSpecial(RStripIn(LStripIn(CollapseSpace(Lowercase(Strip(text))), EdgeJunk), EdgeJunk)))

SimilarityNum == 8
SimilarityDen == 10

texts_are_similar(text1, text2) ==
    LET norm1 == normalize_text(text1)
        norm2 == normalize_text(text2)
    IN  IF norm1 = <<>> \/ norm2 = <<>> THEN FALSE
        ELSE \/ norm1 = norm2
             \/ Contains(norm2, norm1) \/ Contains(norm1, norm2)
             \/ RatioAtLeast(norm1, norm2, SimilarityNum, SimilarityDen)

\* \b at position p, between s[p-1] and s[p]
WordBoundary(s, p) ==
    (p > 1 /\ p - 1 <= Len(s) /\ IsWord(s[p - 1])) # (p >= 1 /\ p <= Len(s) /\ IsWord(s[p]))

\* n digits from position i
DigitsAt(s, i, n) == \A d \in 0..(n - 1) : AtCls(s, i + d, Digit)

Months == {<<"j","a","n","u","a","r","y">>,
     <<"f","e","b","r","u","a","r","y">>,
     <<"m","a","r","c","h">>,
     <<"a","p","r","i","l">>,
     <<"m","a","y">>,
     <<"j","u","n","e">>,
     <<"j","u","l","y">>,
     <<"a","u","g","u","s","t">>,
     <<"s","e","p","t","e","m","b","e","r">>,
     <<"o","c","t","o","b","e","r">>,
     <<"n","o","v","e","m","b","e","r">>,
     <<"d","e","c","e","m","b","e","r">>,
     <<"j","a","n">>,
     <<"f","e","b">>,
     <<"m","a","r">>,
     <<"a","p","r">>,
     <<"m","a","y">>,
     <<"j","u","n">>,
     <<"j","u","l">>,
     <<"a","u","g">>,
     <<"s","e","p">>,
     <<"o","c","t">>,
     <<"n","o","v">>,
     <<"d","e","c">>}
TimeWords == {<<"t","o","d","a","y">>,
     <<"t","o","m","o","r","r","o","w">>,
     <<"y","e","s","t","e","r","d","a","y">>,
     <<"w","e","e","k">>,
     <<"m","o","n","t","h">>,
     <<"y","e","a","r">>}
OrdinalSuffixes == {<<"s","t">>, <<"n","d">>, <<"r","d">>, <<"t","h">>}
DateSep == {"/", "-"}

\* \b(19|20)\d{2}\b  or  \b\d{4}\b
HasYear(s) ==
    \E i \in 1..Len(s) :
        /\ WordBoundary(s, i) /\ DigitsAt(s, i, 4) /\ WordBoundary(s, i + 4)

\* \b\d{1,2}[/-]\d{1,2}[/-]\d{2,4}\b  or  \b\d{1,2}[/-]\d{1,2}\b
HasDate(s) ==
    \E i \in 1..Len(s), a \in 1..2, b \in 1..2 :
        /\ WordBoundary(s, i) /\ DigitsAt(s, i, a)
        /\ AtCls(s, i + a, DateSep) /\ DigitsAt(s, i + a + 1, b)
        /\ \/ WordBoundary(s, i + a + 1 + b)
           \/ \E c \in 2..4 :
                 /\ AtCls(s, i + a + 1 + b, DateSep)
                 /\ DigitsAt(s, i + a + b + 2, c)
                 /\ WordBoundary(s, i + a + b + 2 + c)

\* \b\d{1,2}(st|nd|rd|th)\b
HasOrdinal(s) ==
    \E i \in 1..Len(s), a \in 1..2, suf \in OrdinalSuffixes :
        /\ WordBoundary(s, i) /\ DigitsAt(s, i, a)
        /\ MatchAt(s, suf, i + a) /\ WordBoundary(s, i + a + 2)

\* \bword\b
HasWholeWord(s, w) ==
    \E i \in 1..Len(s) : WordBoundary(s, i) /\ MatchAt(s, w, i) /\ WordBoundary(s, i + Len(w))

contains_date_or_time_reference(text) ==
    \/ HasYear(text)
    \/ \E m \in Months : Contains(Lowercase(text), m)
    \/ HasDate(text)
    \/ HasOrdinal(text)
    \/ \E w \in TimeWords : HasWholeWord(Lowercase(text), w)

\* title = re.sub(r'\s+', ' ', result["title"].strip()) when the title is truthy
CleanTitle(t) == IF Truthy(t) THEN CollapseSpace(Strip(t)) ELSE <<>>

\* item_key = f"{level}:{normalized text}:{page}"
ItemKey(level, norm, page) == <<level, norm, page>>

\* the first loop keeping the normalized text of an entry instead of its
\* stripped text
CleanStep_StoreNormalized(st, item, t) ==
    LET item_text == Strip(item.text)
        norm == normalize_text(item_text)
        key == ItemKey(item.level, norm, item.page)
    IN  IF item_text = <<>> \/ Len(norm) < 2 THEN st
        ELSE IF CleanTitle(t) # <<>> /\ texts_are_similar(item_text, CleanTitle(t)) THEN st
        ELSE IF contains_date_or_time_reference(item_text) THEN st
        ELSE IF (\E ex \in st.seen_text : texts_are_similar(item_text, ex))
                \/ key \in st.seen_items THEN st
        ELSE [seen_items |-> st.seen_items \cup {key},
              seen_text |-> st.seen_text \cup {item_text},
              clean |-> Append(st.clean,
                               [level |-> item.level, text |-> norm, page |-> item.page])]

\* one iteration of the first loop; st = [seen_items, seen_text, clean]
CleanStep(st, item, t) ==
    LET item_text == Strip(item.text)
        norm == normalize_text(item_text)
        key == ItemKey(item.level, norm, item.page)
    IN  IF item_text = <<>> \/ Len(norm) < 2 THEN st
        ELSE IF CleanTitle(t) # <<>> /\ texts_are_similar(item_text, CleanTitle(t)) THEN st
        ELSE IF contains_date_or_time_reference(item_text) THEN st
        ELSE IF (\E ex \in st.seen_text : texts_are_similar(item_text, ex))
                \/ key \in st.seen_items THEN st
        ELSE [seen_items |-> st.seen_items \cup {key},
              seen_text |-> st.seen_text \cup {item_text},
              clean |-> Append(st.clean,
                               [level |-> item.level, text |-> item_text, page |-> item.page])]

RECURSIVE CleanFold(_, _, _)
CleanFold(st, items, t) ==
    IF items = <<>> THEN st ELSE CleanFold(CleanStep(st, Head(items), t), Tail(items), t)

\* one iteration of the second loop; st = [seen, final]
FinalStep(st, item) ==
    IF \E ex \in st.seen : texts_are_similar(item.text, ex) THEN st
    ELSE [seen |-> st.seen \cup {item.text}, final |-> Append(st.final, item)]

RECURSIVE FinalFold(_, _)
FinalFold(st, items) ==
    IF items = <<>> THEN st ELSE FinalFold(FinalStep(st, Head(items)), Tail(items))

\* result["title"] after the pass: rewritten only when it was truthy
ResultTitle(t) == IF Truthy(t) THEN CleanTitle(t) ELSE t

\* the first loop with duplicates detected by the exact key alone
CleanStep_KeyOnly(st, item, t) ==
    LET item_text == Strip(item.text)
        norm == normalize_text(item_text)
        key == ItemKey(item.level, norm, item.page)
    IN  IF item_text = <<>> \/ Len(norm) < 2 THEN st
        ELSE IF CleanTitle(t) # <<>> /\ texts_are_similar(item_text, CleanTitle(t)) THEN st
        ELSE IF contains_date_or_time_reference(item_text) THEN st
        ELSE IF key \in st.seen_items THEN st
        ELSE [seen_items |-> st.seen_items \cup {key},
              seen_text |-> st.seen_text \cup {item_text},
              clean |-> Append(st.clean,
                               [level |-> item.level, text |-> item_text, page |-> item.page])]

RECURSIVE CleanFold_KeyOnly(_, _, _)
CleanFold_KeyOnly(st, items, t) ==
    IF items = <<>> THEN st
    ELSE CleanFold_KeyOnly(CleanStep_KeyOnly(st, Head(items), t), Tail(items), t)

\* the result with exact-key duplicate elimination only
validate_and_clean_result_KeyOnly(r) ==
    [title |-> ResultTitle(r.title),
     outline |-> CleanFold_KeyOnly([seen_items |-> {}, seen_text |-> {}, clean |-> <<>>],
                                   r.outline, r.title).clean]

\* the returned result (no schema is loaded: self.schema is None)
validate_and_clean_result(r) ==
    LET clean == CleanFold([seen_items |-> {}, seen_text |-> {}, clean |-> <<>>],
                           r.outline, r.title).clean
    IN  [title |-> ResultTitle(r.title),
         outline |-> FinalFold([seen |-> {}, final |-> <<>>], clean).final]

-----------------------------------------------------------------------------
(* The document as PyMuPDF presents it.                                       *)
(*   doc   = [name, openable, pages, toc_raises, toc, fault]                  *)
(*   page  = [height, width, blocks]      (page.rect, get_text("dict"))       *)
(*   block = [x0, y0, lines]              (bbox[0], bbox[1], "lines")         *)
(*   line  = a sequence of spans [text, size, flags]                          *)
(*   toc   = get_toc(): a sequence of [level, title, page]                    *)

RECURSIVE Concat(_)
\* the concatenation of a sequence of sequences
Concat(ss) == IF ss = <<>> THEN <<>> ELSE Head(ss) \o Concat(Tail(ss))

RECURSIVE Join(_, _)
\* sep.join(parts)
Join(parts, sep) ==
    IF parts = <<>> THEN <<>>
    ELSE IF Len(parts) = 1 THEN parts[1]
    ELSE parts[1] \o sep \o Join(Tail(parts), sep)

RECURSIVE SumSeq(_)
SumSeq(ns) == IF ns = <<>> THEN 0 ELSE Head(ns) + SumSeq(Tail(ns))

MaxOf(S) == CHOOSE x \in S : \A y \in S : y <= x
Min2(a, b) == IF a < b THEN a ELSE b

\* the lines of a page, in reading order, each with its block's position
PageLines(page) ==
    Concat([b \in 1..Len(page.blocks) |->
              [l \in 1..Len(page.blocks[b].lines) |->
                  [spans |-> page.blocks[b].lines[l],
                   x0 |-> page.blocks[b].x0, y0 |-> page.blocks[b].y0, block |-> b]]])

\* the spans of a page, in reading order
PageSpans(page) ==
    Concat([l \in 1..Len(PageLines(page)) |->
              [k \in 1..Len(PageLines(page)[l].spans) |->
                  [text |-> PageLines(page)[l].spans[k].text,
                   size |-> PageLines(page)[l].spans[k].size,
                   flags |-> PageLines(page)[l].spans[k].flags,
                   x0 |-> PageLines(page)[l].x0, y0 |-> PageLines(page)[l].y0]]])

\* block["bbox"][1] < page_height * 0.5
InTopHalf(y0, page) == 2 * y0 < page.height

-----------------------------------------------------------------------------
(* Title extraction: PDFOutlineExtractor.extract_title *)

ContinuationMinSize == 22

merge_strings(s1, s2) ==
    LET overlaps == {i \in 1..Min2(Len(s1), Len(s2)) : EndsWith(s1, SubSeq(s2, 1, i))}
        max_overlap == IF overlaps = {} THEN 0 ELSE MaxOf(overlaps)
    IN  s1 \o SubSeq(s2, max_overlap + 1, Len(s2))

\* line_text: every span's stripped text followed by a space, the whole stripped
LineText(spans) == Strip(Concat([k \in 1..Len(spans) |-> Strip(spans[k].text) \o <<" ">>]))

\* one line of the second loop; st = [title_lines, raised], title_lines holding at
\* most one text.  A continuation line appends to title_lines[-1] before testing
\* that title_lines is non-empty: IndexError on an empty list.
TitleLineStep(st, ln, page, max_font_size) ==
    LET line_text == LineText(ln.spans)
        sizes == {ln.spans[k].size : k \in 1..Len(ln.spans)}
    IN  IF st.raised \/ ~InTopHalf(ln.y0, page) \/ line_text = <<>> THEN st
        ELSE IF \A sz \in sizes : sz = max_font_size
             THEN IF st.title_lines # <<>>
                     THEN [st EXCEPT !.title_lines = <<merge_strings(@[1], line_text)>>]
                     ELSE [st EXCEPT !.title_lines = <<line_text>>]
        ELSE IF \A sz \in sizes : sz >= ContinuationMinSize /\ sz < max_font_size
             THEN IF st.title_lines = <<>>
                     THEN [st EXCEPT !.raised = TRUE]
                     ELSE [st EXCEPT !.title_lines =
                              <<merge_strings(@[1] \o <<" ">>, line_text) \o <<" ">> >>]
        ELSE st

RECURSIVE TitleLinesFold(_, _, _, _)
TitleLinesFold(st, lns, page, max_font_size) ==
    IF lns = <<>> THEN st
    ELSE TitleLinesFold(TitleLineStep(st, Head(lns), page, max_font_size),
                        Tail(lns), page, max_font_size)

\* after the lines of a block: a space is appended to the running title
TitleBlockEnd(st) ==
    IF ~st.raised /\ st.title_lines # <<>>
        THEN [st EXCEPT !.title_lines = <<@[1] \o <<" ">> >>]
        ELSE st

RECURSIVE TitleBlocksFold(_, _, _, _)
TitleBlocksFold(st, page, b, max_font_size) ==
    IF b > Len(page.blocks) THEN st
    ELSE TitleBlocksFold(
            TitleBlockEnd(TitleLinesFold(st, SelectSeq(PageLines(page), LAMBDA ln : ln.block = b),
                                         page, max_font_size)),
            page, b + 1, max_font_size)

\* [raised, value]: what the call raises (IndexError) or returns; a document
\* without pages falls off the end of the function, which returns None
extract_title(d) ==
    IF Len(d.pages) = 0 THEN [raised |-> FALSE, value |-> PyNone]
    ELSE LET page == d.pages[1]
             top == SelectSeq(PageSpans(page), LAMBDA sp : InTopHalf(sp.y0, page))
             font_sizes == {top[k].size : k \in 1..Len(top)}
         IN  IF font_sizes = {} THEN [raised |-> FALSE, value |-> <<>>]
             ELSE LET st == TitleBlocksFold([title_lines |-> <<>>, raised |-> FALSE],
                                            page, 1, MaxOf(font_sizes))
                  IN  IF st.raised THEN [raised |-> TRUE, value |-> <<>>]
                      ELSE [raised |-> FALSE,
                            value |-> IF st.title_lines # <<>> THEN st.title_lines[1] ELSE <<>>]

-----------------------------------------------------------------------------
(* Baseline font size: PDFOutlineExtractor.calculate_average_font_size *)

SamplePages == 5
DefaultFontSize == 12

\* the baseline as the fraction num/den
calculate_average_font_size(d) ==
    LET sizes == Concat([p \in 1..Min2(SamplePages, Len(d.pages)) |->
                           [k \in 1..Len(PageSpans(d.pages[p])) |-> PageSpans(d.pages[p])[k].size]])
        positive == SelectSeq(sizes, LAMBDA z : z > 0)
    IN  IF positive # <<>> THEN [num |-> SumSeq(positive), den |-> Len(positive)]
        ELSE [num |-> DefaultFontSize, den |-> 1]

-----------------------------------------------------------------------------
(* The textual table of contents: get_outline_from_toc and its helpers *)

\* "1", "2.1", "2.1." ...: digits, or dot-separated parts that are all digits
RECURSIVE AllPartsDigits(_)
AllPartsDigits(s) ==
    LET e == RunEnd(s, 1, Digit) IN
    /\ e > 1
    /\ \/ e = Len(s) + 1
       \/ s[e] = "." /\ AllPartsDigits(SubSeq(s, e + 1, Len(s)))

_is_section_number(text) ==
    LET clean_text == RStripDot(text) IN
    \/ IsDigits(clean_text)
    \/ Contains(clean_text, <<".">>) /\ AllPartsDigits(clean_text)

\* len(clean_num.split('.'))
NumParts(s) == 1 + Cardinality({i \in 1..Len(s) : s[i] = "."})

_get_heading_level(section_num) ==
    LET num_parts == NumParts(RStripDot(section_num)) IN
    IF num_parts = 1 THEN "H1" ELSE IF num_parts = 2 THEN "H2" ELSE "H3"

PageNumberLimit == 1000
\* entries[i].isdigit() and int(entries[i]) < 1000
IsPageNumber(e) == IsDigits(e) /\ IntOf(e) < PageNumberLimit

\* the least index j >= from of entries with j \in hits, or Len(entries) + 1
FirstFrom(entries, from, hits) ==
    LET later == {j \in hits : j >= from /\ j <= Len(entries)} IN
    IF later = {} THEN Len(entries) + 1 ELSE CHOOSE j \in later : \A k \in later : j <= k

\* one pass of the outer loop that keeps a numbered entry still open at the end
\* of the text
TocStep_KeepOpen(entries, i, out) ==
    LET cur == entries[i] IN
    IF _is_section_number(cur)
        THEN LET j == FirstFrom(entries, i + 1, {k \in 1..Len(entries) : IsPageNumber(entries[k])})
                 ttl == Strip(Join(SubSeq(entries, i + 1, j - 1), <<" ">>))
             IN  IF ttl # <<>>
                    THEN [i |-> j + 1,
                          outline |-> Append(out, [level |-> _get_heading_level(cur),
                                                   text |-> cur \o <<" ">> \o ttl,
                                                   page |-> IF j <= Len(entries)
                                                               THEN IntOf(entries[j]) ELSE 0])]
                    ELSE [i |-> j + 1, outline |-> out]
    ELSE IF IsUpper(cur[1]) /\ ~IsDigits(cur)
        THEN LET j == FirstFrom(entries, i + 1,
                                {k \in 1..Len(entries) :
                                    IsPageNumber(entries[k]) \/ _is_section_number(entries[k])})
                 ttl == Strip(Join(SubSeq(entries, i, j - 1), <<" ">>))
             IN  IF j <= Len(entries) /\ IsPageNumber(entries[j])
                    THEN [i |-> j + 1,
                          outline |-> Append(out, [level |-> "H1", text |-> ttl,
                                                   page |-> IntOf(entries[j]) - 1])]
                 ELSE IF j <= Len(entries)
                    THEN [i |-> j, outline |-> out]
                 ELSE [i |-> j + 1, outline |-> out]
    ELSE [i |-> i + 1, outline |-> out]

\* one pass of the outer while loop from index i: [i, outline] after it
TocStep(entries, i, out) ==
    LET cur == entries[i] IN
    IF _is_section_number(cur)
        THEN LET j == FirstFrom(entries, i + 1, {k \in 1..Len(entries) : IsPageNumber(entries[k])})
                 ttl == Strip(Join(SubSeq(entries, i + 1, j - 1), <<" ">>))
             IN  IF j <= Len(entries) /\ ttl # <<>>
                    THEN [i |-> j + 1,
                          outline |-> Append(out, [level |-> _get_heading_level(cur),
                                                   text |-> cur \o <<" ">> \o ttl,
                                                   page |-> IntOf(entries[j])])]
                    ELSE [i |-> j + 1, outline |-> out]
    ELSE IF IsUpper(cur[1]) /\ ~IsDigits(cur)
        THEN LET j == FirstFrom(entries, i + 1,
                                {k \in 1..Len(entries) :
                                    IsPageNumber(entries[k]) \/ _is_section_number(entries[k])})
                 ttl == Strip(Join(SubSeq(entries, i, j - 1), <<" ">>))
             IN  IF j <= Len(entries) /\ IsPageNumber(entries[j])
                    THEN [i |-> j + 1,
                          outline |-> Append(out, [level |-> "H1", text |-> ttl,
                                                   page |-> IntOf(entries[j]) - 1])]
                 ELSE IF j <= Len(entries)
                    \* i -= 1 on a section number, then the loop's i += 1
                    THEN [i |-> j, outline |-> out]
                 ELSE [i |-> j + 1, outline |-> out]
    ELSE [i |-> i + 1, outline |-> out]

RECURSIVE TocLoop(_, _, _)
TocLoop(entries, i, out) ==
    IF i > Len(entries) THEN out
    ELSE TocLoop(entries, TocStep(entries, i, out).i, TocStep(entries, i, out).outline)

\* page_text is a list of lines, or (when no line holds the marker) the page's
\* text itself, which Python iterates character by character
get_outline_from_toc(page_text) ==
    LET stripped == [k \in 1..Len(page_text) |-> Strip(page_text[k])]
        entries == SelectSeq(stripped, LAMBDA e : e # <<>>)
    IN  TocLoop(entries, 1, <<>>)

-----------------------------------------------------------------------------
(* TOC detection: PDFOutlineExtractor.detect_table_of_contents *)

TocMarker == <<"t","a","b","l","e"," ","o","f"," ","c","o","n","t","e","n","t","s">>

\* page.get_text(): every line's spans, then a newline
PageTextLines(page) ==
    [l \in 1..Len(PageLines(page)) |->
        Concat([k \in 1..Len(PageLines(page)[l].spans) |-> PageLines(page)[l].spans[k].text])]
PageText(page) ==
    Concat([l \in 1..Len(PageTextLines(page)) |-> PageTextLines(page)[l] \o <<"\n">>])

\* re.search(r'table\s+of\s+contents', text.lower()); the list's second element
\* is one string literal holding the source text "r'contents', #r'index',",
\* which no text of the model contains
HasTocMarker(text) ==
    LET low == Lowercase(text) IN
    \E i \in 1..Len(low) :
        /\ MatchAt(low, <<"t","a","b","l","e">>, i)
        /\ LET a == RunEnd(low, i + 5, Space) IN
           /\ a > i + 5 /\ MatchAt(low, <<"o","f">>, a)
           /\ LET b == RunEnd(low, a + 2, Space) IN
              b > a + 2 /\ MatchAt(low, <<"c","o","n","t","e","n","t","s">>, b)

\* what get_outline_from_toc is given for a page that has the marker
TocInput(page) ==
    LET lines == PageTextLines(page) \o << <<>> >>
        hits == {i \in 1..Len(lines) : Contains(Lowercase(lines[i]), TocMarker)}
    IN  IF hits # {}
           THEN SubSeq(lines, (CHOOSE i \in hits : \A k \in hits : i <= k) + 1, Len(lines))
           ELSE [k \in 1..Len(PageText(page)) |-> <<PageText(page)[k]>>]

\* the entries of the first of the first <= 5 pages whose scan yields any
RECURSIVE TextualToc(_, _)
TextualToc(d, p) ==
    IF p > Min2(SamplePages, Len(d.pages)) THEN <<>>
    ELSE IF HasTocMarker(PageText(d.pages[p]))
            /\ get_outline_from_toc(TocInput(d.pages[p])) # <<>>
         THEN get_outline_from_toc(TocInput(d.pages[p]))
    ELSE TextualToc(d, p + 1)

\* the bookmarks kept: a non-blank title and a page > 0
EmbeddedToc(d) ==
    LET kept == SelectSeq(d.toc, LAMBDA e : Strip(e.title) # <<>> /\ e.page > 0)
    IN  [k \in 1..Len(kept) |->
            [level |-> IF kept[k].level = 1 THEN "H1"
                       ELSE IF kept[k].level = 2 THEN "H2" ELSE "H3",
             text |-> Strip(kept[k].title),
             page |-> kept[k].page - 1]]

\* [toc, scanned]: the entries (<<>> for None) and whether the textual scan ran.
\* With bookmarks present the function returns from inside "if pdf_toc:", with
\* the kept entries or None; an exception of get_toc() is caught and logged.
detect_table_of_contents(d) ==
    IF ~d.toc_raises /\ d.toc # <<>>
        THEN [toc |-> EmbeddedToc(d), scanned |-> FALSE]
        ELSE [toc |-> TextualToc(d, 1), scanned |-> TRUE]

-----------------------------------------------------------------------------
(* Per-span classification inside extract_outline *)

\* all_elements: every span with non-blank text, with its relative position and
\* its 0-based page index
RECURSIVE AllElements(_, _)
AllElements(d, p) ==
    IF p > Len(d.pages) THEN <<>>
    ELSE LET spans == SelectSeq(PageSpans(d.pages[p]), LAMBDA sp : Strip(sp.text) # <<>>)
         IN  [k \in 1..Len(spans) |->
                 [text |-> Strip(spans[k].text),
                  font_size |-> spans[k].size,
                  font_flags |-> spans[k].flags,
                  y_position |-> [num |-> spans[k].y0, den |-> d.pages[p].height],
                  x_position |-> [num |-> spans[k].x0, den |-> d.pages[p].width],
                  page |-> p - 1]]
             \o AllElements(d, p + 1)

\* the call of detect_heading_level in extract_outline: its fifth argument,
\* x_position, is given element['y_position']
CallArgs(el) == [x_position |-> el.y_position, page_num |-> el.page]

ClassifyElement(el, avg) ==
    detect_heading_level(el.text, el.font_size, el.font_flags, avg,
                         CallArgs(el).x_position, CallArgs(el).page_num)

\* heading_key = f"{level}:{text_normalized}:{page}"
HeadingKey(el, level) == <<level, CollapseSpace(Lowercase(Strip(el.text))), el.page>>

\* one iteration of the detection loop; st = [outline, seen_headings]
CollectStep(st, el, avg) ==
    LET level == ClassifyElement(el, avg) IN
    IF level # NoLevel /\ el.text # <<>> /\ HeadingKey(el, level) \notin st.seen_headings
        THEN [outline |-> Append(st.outline,
                                 [level |-> level, text |-> el.text, page |-> el.page]),
              seen_headings |-> st.seen_headings \cup {HeadingKey(el, level)}]
        ELSE st

RECURSIVE CollectFold(_, _, _)
CollectFold(st, els, avg) ==
    IF els = <<>> THEN st ELSE CollectFold(CollectStep(st, Head(els), avg), Tail(els), avg)

\* the outline before validate_hierarchy
ClassifyDocument(d) ==
    CollectFold([outline |-> <<>>, seen_headings |-> {}],
                AllElements(d, 1), calculate_average_font_size(d)).outline

-----------------------------------------------------------------------------
(* The documents of the model *)

TxtAnnualReport == <<"A","n","n","u","a","l"," ","R","e","p","o","r","t"," ","2","0","2","4">>
TxtOverview == <<"O","v","e","r","v","i","e","w">>
TxtExecutiveSummary == <<"E","x","e","c","u","t","i","v","e"," ","S","u","m","m","a","r","y">>
TxtBody == <<"R","e","v","e","n","u","e"," ","g","r","e","w"," ","b","y"," ","t","e","n"," ","p","e","r","c","e","n","t",".">>
TxtScope == <<"1","."," ","S","c","o","p","e">>
TxtIntroduction == <<"I","N","T","R","O","D","U","C","T","I","O","N">>
TxtDetails == <<"D","e","t","a","i","l","s"," ","h","e","r","e">>
TxtTocMarker == <<"T","a","b","l","e"," ","o","f"," ","C","o","n","t","e","n","t","s">>
TxtOne == <<"1">>
TxtScopeWord == <<"S","c","o","p","e">>
TxtThree == <<"3">>
TxtRevision == <<"R","e","v","i","s","i","o","n"," ","H","i","s","t","o","r","y">>
TxtFive == <<"5">>
TxtIntro == <<"I","n","t","r","o">>
TxtBlank == <<" "," ">>
TxtFileName == <<"a",".","p","d","f">>
TxtErrorPrefix == <<"E","r","r","o","r"," ","p","r","o","c","e","s","s","i","n","g"," ">>

\* font_flags & 2**4
Bold == 16

Span(text, size, flags) == [text |-> text, size |-> size, flags |-> flags]
Block(x0, y0, lines) == [x0 |-> x0, y0 |-> y0, lines |-> lines]

BlkTitle == Block(50, 40, << <<Span(TxtAnnualReport, 24, 0)>> >>)
BlkContinuation == Block(50, 90, << <<Span(TxtOverview, 22, 0)>> >>)
BlkHeading == Block(70, 150, << <<Span(TxtExecutiveSummary, 18, 0)>> >>)
BlkNumbered == Block(70, 250, << <<Span(TxtScope, 12, Bold)>>, <<Span(TxtDetails, 10, Bold)>> >>)
BlkCaps == Block(50, 60, << <<Span(TxtIntroduction, 12, Bold)>> >>)
BlkBody == Block(70, 500, << <<Span(TxtBody, 10, 0)>>, <<Span(TxtBody, 10, 0)>> >>)
BlkToc == Block(70, 450, << <<Span(TxtTocMarker, 10, 0)>>, <<Span(TxtOne, 10, 0)>>,
                            <<Span(TxtScopeWord, 10, 0)>>, <<Span(TxtThree, 10, 0)>>,
                            <<Span(TxtRevision, 10, 0)>>, <<Span(TxtFive, 10, 0)>> >>)

BlockPool == {BlkTitle, BlkContinuation, BlkHeading, BlkNumbered, BlkCaps, BlkBody, BlkToc}

\* the most blocks on a generated page
MaxBlocks == 2

SeqsUpTo(S, n) == UNION {[1..k -> S] : k \in 0..n}

\* page.rect of every page: 600 wide, 800 high
MkPage(blocks) == [height |-> 800, width |-> 600, blocks |-> blocks]

\* get_toc(): no bookmarks; bookmarks that are all discarded (blank title, page
\* 0); one usable bookmark; nested bookmarks with a discarded one among them
Bookmark(level, ttl, page) == [level |-> level, title |-> ttl, page |-> page]
TocChoices ==
    { <<>>,
      <<Bookmark(1, TxtBlank, 1), Bookmark(2, TxtScopeWord, 0)>>,
      <<Bookmark(1, TxtIntro, 1)>>,
      <<Bookmark(1, TxtIntro, 1), Bookmark(2, TxtScopeWord, 2),
        Bookmark(4, TxtDetails, 2), Bookmark(1, TxtBlank, 3)>> }

\* where a library call raises while the document is processed: nowhere, in
\* page.get_text("dict") of extract_title, in page.get_text() of the textual
\* scan, in the span collection, or in the cleaning pass
Faults == {"none", "title", "scan", "classify", "clean"}

MkDoc(pages, toc_raises, toc, fault) ==
    [name |-> TxtFileName, openable |-> TRUE, pages |-> pages,
     toc_raises |-> toc_raises, toc |-> toc, fault |-> fault]

\* a file fitz.open() raises on
UnopenableDoc == [MkDoc(<<>>, FALSE, <<>>, "none") EXCEPT !.openable = FALSE]

\* a single page: the title, one heading at 1.5 times the baseline (18 against
\* (20 + 18 + 7 * 10) / 9 = 12) and seven body spans
ScenarioDoc ==
    MkDoc(<< MkPage(<< Block(50, 40, << <<Span(TxtAnnualReport, 20, 0)>> >>),
                       Block(70, 150, << <<Span(TxtExecutiveSummary, 18, 0)>> >>),
                       Block(70, 300, [k \in 1..7 |-> <<Span(TxtBody, 10, 0)>>]) >>) >>,
          FALSE, <<>>, "none")

\* one generated page, alone or after an empty first page
GeneratedPages ==
    {<< MkPage(bs) >> : bs \in SeqsUpTo(BlockPool, MaxBlocks)}
    \cup {<< MkPage(<<>>), MkPage(<<b>>) >> : b \in BlockPool}

\* the unopenable file, the scenario, a document without pages, and every
\* generated page list: with each embedded TOC and no fault, without bookmarks and
\* each fault, with a usable bookmark and a fault in the cleaning pass, and with
\* get_toc() raising
Docs ==
    {UnopenableDoc, ScenarioDoc, MkDoc(<<>>, FALSE, <<>>, "none")}
    \cup {MkDoc(pg, FALSE, toc, "none") : pg \in GeneratedPages, toc \in TocChoices}
    \cup {MkDoc(pg, FALSE, <<>>, fault) : pg \in GeneratedPages, fault \in Faults}
    \cup {MkDoc(pg, FALSE, <<Bookmark(1, TxtIntro, 1)>>, "clean") : pg \in GeneratedPages}
    \cup {MkDoc(pg, TRUE, <<>>, "none") : pg \in GeneratedPages}

-----------------------------------------------------------------------------
(* extract_outline, step by step.  epc is the position in the call; steps is   *)
(* the history of the calls made so far.                                       *)

Pending == [pending |-> TRUE]

\* the except clause let through: the exception reaches the caller
OnException_Propagate(d) == [escaped |-> TRUE, result |-> Pending]

\* except Exception: the degraded result is returned
OnException(d) ==
    [escaped |-> FALSE,
     result |-> [title |-> TxtErrorPrefix \o d.name, outline |-> <<>>]]

\* a call of extract_outline on a document, nothing else in use
EInit ==
    /\ epc = "open" /\ doc \in Docs /\ title = <<>> /\ toc_outline = <<>>
    /\ outline = <<>> /\ result = Pending /\ steps = <<>> /\ escaped = FALSE
    /\ hpc = "off" /\ h_outline = <<>> /\ h_validated = <<>>
    /\ cpc = "off" /\ c_input = Pending /\ c_once = Pending /\ c_twice = Pending
    /\ spc = "off" /\ domain = "general" /\ embedding_model = "none" /\ bm25 = "none"
    /\ chunks = <<>> /\ chunk_embeddings = "none" /\ top_k = 0 /\ results = <<>>
    /\ error = "none" /\ hybrid_scores = <<>> /\ top_idx = <<>>
    /\ npc = "off" /\ n_token = <<>> /\ n_is_section = FALSE /\ n_level = "None"
    /\ tpc = "off" /\ t_page_text = <<>> /\ t_entries = <<>> /\ t_i = 0 /\ t_outline = <<>>
    /\ kpc = "off" /\ k_pages = <<>> /\ k_headings = <<>> /\ k_chunks = <<>>
    /\ apc = "off" /\ a_meta = NoMeta /\ a_chunks = <<>> /\ pdf_cache = <<>>
    /\ a_tasks = <<>> /\ a_response = NoResponse
    /\ gpc = "off" /\ g_el = NoElement /\ g_score = 0 /\ g_level = "None"
    /\ g_left = FALSE /\ g_first = FALSE

\* the handler of the try block: the call ends here
Raise(step) ==
    /\ epc' = "done"
    /\ steps' = Append(steps, step) \o <<"except">>
    /\ result' = OnException(doc).result
    /\ escaped' = OnException(doc).escaped
    /\ UNCHANGED <<doc, title, toc_outline, outline>>

\* doc = fitz.open(pdf_path)
Open ==
    /\ epc = "open"
    /\ IF doc.openable
          THEN /\ epc' = "title"
               /\ steps' = Append(steps, "open")
               /\ UNCHANGED <<doc, title, toc_outline, outline, result, escaped>>
          ELSE Raise("open")
    /\ UNCHANGED <<hvars, cvars, svars, xvars>>

\* title = self.extract_title(doc)
ExtractTitle ==
    /\ epc = "title"
    /\ IF (doc.fault = "title" /\ Len(doc.pages) > 0) \/ extract_title(doc).raised
          THEN Raise("extract_title")
          ELSE /\ title' = extract_title(doc).value
               /\ epc' = "toc"
               /\ steps' = Append(steps, "extract_title")
               /\ UNCHANGED <<doc, toc_outline, outline, result, escaped>>
    /\ UNCHANGED <<hvars, cvars, svars, xvars>>

\* both sources run: the classification follows whatever the TOC detection gave
UseToc_Never(toc) == FALSE

\* "if toc_outline:": the TOC is the outline when it has an entry
UseToc(toc) == toc # <<>>

\* toc_outline = self.detect_table_of_contents(doc), and the choice of the path
DetectToc ==
    /\ epc = "toc"
    /\ LET r == detect_table_of_contents(doc) IN
       IF r.scanned /\ doc.fault = "scan" /\ Len(doc.pages) > 0
          THEN Raise("detect_table_of_contents")
          ELSE /\ toc_outline' = r.toc
               /\ steps' = Append(steps, "detect_table_of_contents")
               /\ IF UseToc(r.toc)
                     THEN outline' = r.toc /\ epc' = "clean"
                     ELSE outline' = outline /\ epc' = "classify"
               /\ UNCHANGED <<doc, title, result, escaped>>
    /\ UNCHANGED <<hvars, cvars, svars, xvars>>

\* the baseline, the span collection and the detection loop
Classify ==
    /\ epc = "classify"
    /\ IF doc.fault = "classify" /\ Len(doc.pages) > 0
          THEN Raise("classify")
          ELSE /\ outline' = ClassifyDocument(doc)
               /\ epc' = "hierarchy"
               /\ steps' = Append(steps, "classify")
               /\ UNCHANGED <<doc, title, toc_outline, result, escaped>>
    /\ UNCHANGED <<hvars, cvars, svars, xvars>>

\* outline = self.validate_hierarchy(outline)
ValidateHierarchy ==
    /\ epc = "hierarchy"
    /\ outline' = validate_hierarchy(outline)
    /\ epc' = "clean"
    /\ steps' = Append(steps, "validate_hierarchy")
    /\ UNCHANGED <<doc, title, toc_outline, result, escaped>>
    /\ UNCHANGED <<hvars, cvars, svars, xvars>>

\* result = self.validate_and_clean_result(result); return result
Clean ==
    /\ epc = "clean"
    /\ IF doc.fault = "clean"
          THEN Raise("validate_and_clean_result")
          ELSE /\ result' = validate_and_clean_result([title |-> title, outline |-> outline])
               /\ epc' = "done"
               /\ steps' = Append(steps, "validate_and_clean_result")
               /\ UNCHANGED <<doc, title, toc_outline, outline, escaped>>
    /\ UNCHANGED <<hvars, cvars, svars, xvars>>

ENext == Open \/ ExtractTitle \/ DetectToc \/ Classify \/ ValidateHierarchy \/ Clean

-----------------------------------------------------------------------------
(* validate_hierarchy on its own: every sequence of candidates up to a length *)

\* the longest candidate list
MaxOutlineLen == 4

HierTexts == {<<"a">>, <<"b">>}
HierItems == {[level |-> lv, text |-> t, page |-> 0] : lv \in Levels, t \in HierTexts}

HInit ==
    /\ hpc = "ready" /\ h_outline \in SeqsUpTo(HierItems, MaxOutlineLen)
    /\ h_validated = <<>>
    /\ epc = "off" /\ doc = UnopenableDoc /\ title = <<>> /\ toc_outline = <<>>
    /\ outline = <<>> /\ result = Pending /\ steps = <<>> /\ escaped = FALSE
    /\ cpc = "off" /\ c_input = Pending /\ c_once = Pending /\ c_twice = Pending
    /\ spc = "off" /\ domain = "general" /\ embedding_model = "none" /\ bm25 = "none"
    /\ chunks = <<>> /\ chunk_embeddings = "none" /\ top_k = 0 /\ results = <<>>
    /\ error = "none" /\ hybrid_scores = <<>> /\ top_idx = <<>>
    /\ npc = "off" /\ n_token = <<>> /\ n_is_section = FALSE /\ n_level = "None"
    /\ tpc = "off" /\ t_page_text = <<>> /\ t_entries = <<>> /\ t_i = 0 /\ t_outline = <<>>
    /\ kpc = "off" /\ k_pages = <<>> /\ k_headings = <<>> /\ k_chunks = <<>>
    /\ apc = "off" /\ a_meta = NoMeta /\ a_chunks = <<>> /\ pdf_cache = <<>>
    /\ a_tasks = <<>> /\ a_response = NoResponse
    /\ gpc = "off" /\ g_el = NoElement /\ g_score = 0 /\ g_level = "None"
    /\ g_left = FALSE /\ g_first = FALSE

CallValidateHierarchy ==
    /\ hpc = "ready"
    /\ h_validated' = validate_hierarchy(h_outline)
    /\ hpc' = "returned"
    /\ UNCHANGED <<h_outline, evars, cvars, svars, xvars>>

-----------------------------------------------------------------------------
(* validate_and_clean_result applied to a result, then to its own output *)

\* the longest outline given to the cleaning pass
MaxCleanLen == 2

CleanTexts == {<<"I","n","t","r","o">>, <<" ","1","."," ","I","n","t","r","o">>, <<"S","c","o","p","e">>,
               <<"S","c","o","p","a">>, <<"S","t","e","p"," ","2",":">>, <<"M","a","y"," ","P","l","a","n">>,
               <<"P","l","a","n">>}
CleanTitles == {PyNone, <<>>, <<"S","c","o","p","e">>, <<" ","I","n","t","r","o"," "," "," "," ","G","u","i","d","e"," ">>}
CleanItems ==
    {[level |-> lv, text |-> t, page |-> p] : lv \in {"H1", "H2"}, t \in CleanTexts, p \in {0, 1}}

CInit ==
    /\ cpc = "input"
    /\ c_input \in {[title |-> t, outline |-> o] :
                       t \in CleanTitles, o \in SeqsUpTo(CleanItems, MaxCleanLen)}
    /\ c_once = Pending /\ c_twice = Pending
    /\ hpc = "off" /\ h_outline = <<>> /\ h_validated = <<>>
    /\ epc = "off" /\ doc = UnopenableDoc /\ title = <<>> /\ toc_outline = <<>>
    /\ outline = <<>> /\ result = Pending /\ steps = <<>> /\ escaped = FALSE
    /\ spc = "off" /\ domain = "general" /\ embedding_model = "none" /\ bm25 = "none"
    /\ chunks = <<>> /\ chunk_embeddings = "none" /\ top_k = 0 /\ results = <<>>
    /\ error = "none" /\ hybrid_scores = <<>> /\ top_idx = <<>>
    /\ npc = "off" /\ n_token = <<>> /\ n_is_section = FALSE /\ n_level = "None"
    /\ tpc = "off" /\ t_page_text = <<>> /\ t_entries = <<>> /\ t_i = 0 /\ t_outline = <<>>
    /\ kpc = "off" /\ k_pages = <<>> /\ k_headings = <<>> /\ k_chunks = <<>>
    /\ apc = "off" /\ a_meta = NoMeta /\ a_chunks = <<>> /\ pdf_cache = <<>>
    /\ a_tasks = <<>> /\ a_response = NoResponse
    /\ gpc = "off" /\ g_el = NoElement /\ g_score = 0 /\ g_level = "None"
    /\ g_left = FALSE /\ g_first = FALSE

CleanOnce ==
    /\ cpc = "input"
    /\ c_once' = validate_and_clean_result(c_input)
    /\ cpc' = "once"
    /\ UNCHANGED <<c_input, c_twice, hvars, evars, svars, xvars>>

CleanTwice ==
    /\ cpc = "once"
    /\ c_twice' = validate_and_clean_result(c_once)
    /\ cpc' = "twice"
    /\ UNCHANGED <<c_input, c_once, hvars, evars, svars, xvars>>

-----------------------------------------------------------------------------
(* The hybrid retriever: HybridRetriever of hybrid_retriever.py.               *)
(* BM25Okapi.get_scores and the embedding similarities depend on the query and *)
(* the chunk texts; here they are any vector of scores over small sets.  A     *)
(* score s stands for s / ScoreUnit, which keeps the normalisation and the     *)
(* fusion exact.                                                               *)

Domains == {"travel", "research", "business", "culinary", "general"}

\* weights whose travel pair adds up to 1.1
hybrid_weights_Unnormalized ==
    [travel   |-> [bm25 |-> 7, embedding |-> 4],
     research |-> [bm25 |-> 4, embedding |-> 6],
     business |-> [bm25 |-> 5, embedding |-> 5],
     culinary |-> [bm25 |-> 7, embedding |-> 3],
     general  |-> [bm25 |-> 6, embedding |-> 4]]

\* self.hybrid_weights, in tenths
hybrid_weights ==
    [travel   |-> [bm25 |-> 6, embedding |-> 4],
     research |-> [bm25 |-> 4, embedding |-> 6],
     business |-> [bm25 |-> 5, embedding |-> 5],
     culinary |-> [bm25 |-> 7, embedding |-> 3],
     general  |-> [bm25 |-> 6, embedding |-> 4]]

\* the most chunks in a generated chunk list
MaxChunks == 2

\* raw BM25 scores of get_scores()
RawScores == {0, 1, 2}
\* a score s stands for s / ScoreUnit: tenths for the weights, halves for raw / max
ScoreUnit == 10 * 2
\* cosine similarities 0.0 and 1.0
EmbScores == {0, ScoreUnit}
KChoices == {-1, 0, 1, 2, 5}
Queries == {"q"}

Chunk(h, n) == [heading |-> h, pdf_name |-> n]
\* headings "Ab" and "ac" are similar (ratio 0.5), "xyzw" is similar to neither
ChunkPool ==
    { Chunk(<<"A","b">>, "a.pdf"), Chunk(<<"a","c">>, "b.pdf"),
      Chunk(<<"x","y","z","w">>, "a.pdf"), Chunk(<<"x","y","z","w">>, "b.pdf") }

\* three chunks of one document and two of another
ScenarioChunks ==
    << Chunk(<<"A","b">>, "a.pdf"), Chunk(<<"x","y","z","w">>, "a.pdf"), Chunk(<<>>, "a.pdf"),
       Chunk(<<"a","c">>, "b.pdf"), Chunk(<<"x","y","z","w">>, "b.pdf") >>

ChunkLists == SeqsUpTo(ChunkPool, MaxChunks) \cup {ScenarioChunks}

DiversityNum == 3
DiversityDen == 10

\* similarity_score(text1, text2) > diversity_threshold
TooSimilar(text1, text2) ==
    RatioAbove(Lowercase(text1), Lowercase(text2), DiversityNum, DiversityDen)

\* the last of the best
BestOf_LastTie(remaining, scores) ==
    remaining[CHOOSE p \in 1..Len(remaining) :
                 /\ \A q \in 1..Len(remaining) : scores[remaining[q]] <= scores[remaining[p]]
                 /\ \A q \in (p + 1)..Len(remaining) : scores[remaining[q]] < scores[remaining[p]]]

\* max(remaining, key=lambda i: scores[i]): the first of the best
BestOf(remaining, scores) ==
    remaining[CHOOSE p \in 1..Len(remaining) :
                 /\ \A q \in 1..Len(remaining) : scores[remaining[q]] <= scores[remaining[p]]
                 /\ \A q \in 1..(p - 1) : scores[remaining[q]] < scores[remaining[p]]]

\* suppression by heading similarity alone
Suppressed_HeadingOnly(cs, idx, best_idx) ==
    TooSimilar(cs[idx].heading, cs[best_idx].heading)

\* suppression by source document alone
Suppressed_SameDocOnly(cs, idx, best_idx) ==
    cs[idx].pdf_name = cs[best_idx].pdf_name

\* whether the chunk at idx is dropped from remaining once best_idx is selected
Suppressed(cs, idx, best_idx) ==
    \/ cs[idx].pdf_name = cs[best_idx].pdf_name
    \/ TooSimilar(cs[idx].heading, cs[best_idx].heading)

\* the loop without its "len(selected) < k" test
RECURSIVE DiverseLoop_IgnoreK(_, _, _, _, _)
DiverseLoop_IgnoreK(selected, remaining, scores, k, cs) ==
    IF remaining = <<>> THEN selected
    ELSE LET best_idx == BestOf(remaining, scores) IN
         DiverseLoop_IgnoreK(Append(selected, best_idx),
                             SelectSeq(remaining,
                                       LAMBDA idx : idx # best_idx /\ ~Suppressed(cs, idx, best_idx)),
                             scores, k, cs)

RECURSIVE DiverseLoop(_, _, _, _, _)
DiverseLoop(selected, remaining, scores, k, cs) ==
    IF ~(Len(selected) < k /\ remaining # <<>>) THEN selected
    ELSE LET best_idx == BestOf(remaining, scores) IN
         DiverseLoop(Append(selected, best_idx),
                     SelectSeq(remaining,
                               LAMBDA idx : idx # best_idx /\ ~Suppressed(cs, idx, best_idx)),
                     scores, k, cs)

\* 1-based indices of the selected chunks, in rank order
diverse_top_k(scores, k, cs) ==
    DiverseLoop(<<>>, [i \in 1..Len(scores) |-> i], scores, k, cs)

\* bm25_scores after "if max(bm25_scores) > 0: divide by the maximum"
NormalizeBM25(raw) ==
    LET mx == MaxOf({raw[i] : i \in 1..Len(raw)}) IN
    [i \in 1..Len(raw) |-> IF mx > 0 THEN (raw[i] * ScoreUnit) \div mx ELSE raw[i] * ScoreUnit]

\* embedding_scores: the similarities when the model and the chunk embeddings
\* exist, else None (here <<>>: both are falsy in "if embedding_scores:")
EmbeddingScores(model, embeddings, emb) ==
    IF model # "none" /\ embeddings # "none" THEN emb ELSE <<>>

\* hybrid_scores
HybridScores(bm, es, dom) ==
    IF es # <<>>
        THEN [i \in 1..Min2(Len(bm), Len(es)) |->
                 (hybrid_weights[dom].bm25 * bm[i] + hybrid_weights[dom].embedding * es[i]) \div 10]
        ELSE bm

\* enhance_query(query, persona, task): the query with the persona and task terms
enhance_query(query) == <<query, "persona", "task">>

\* one returned chunk: a copy of the chunk with the annotations written over it
Annotated(chunk, rank, hy, bm, es, idx, query) ==
    (IF es # <<>> THEN [embedding_score |-> es[idx]] ELSE <<>>)
    @@ [importance_rank |-> rank, hybrid_score |-> hy[idx], bm25_score |-> bm[idx],
        original_query |-> query, enhanced_query |-> enhance_query(query)]
    @@ chunk

\* top_chunks of search_top_k for raw BM25 scores raw and similarities emb
search_top_k(raw, emb, k, query) ==
    LET bm == NormalizeBM25(raw)
        es == EmbeddingScores(embedding_model, chunk_embeddings, emb)
        hy == HybridScores(bm, es, domain)
        top == diverse_top_k(hy, k, chunks)
    IN  [rank \in 1..Len(top) |-> Annotated(chunks[top[rank]], rank, hy, bm, es, top[rank], query)]

\* hybrid_scores of the same call
hybrid_scores_of(raw, emb) ==
    HybridScores(NormalizeBM25(raw), EmbeddingScores(embedding_model, chunk_embeddings, emb),
                 domain)

\* top_indices of the same call
top_indices(raw, emb, k) == diverse_top_k(hybrid_scores_of(raw, emb), k, chunks)

\* self.chunks after a search that wrote the annotations to self.chunks[idx]
\* itself
ChunksAfterSearch_InPlace(cs, top, top_chunks) ==
    [i \in 1..Len(cs) |->
        IF \E rank \in 1..Len(top) : top[rank] = i
           THEN top_chunks[CHOOSE rank \in 1..Len(top) : top[rank] = i]
           ELSE cs[i]]

\* self.chunks after the search: chunk = self.chunks[idx].copy() and every
\* annotation is a key of the copy
ChunksAfterSearch(cs, top, top_chunks) == cs

\* BM25Okapi(tokenized_chunks, **params): rank_bm25 divides the summed document
\* length by the corpus size, ZeroDivisionError for an empty corpus
BM25Okapi(cs) ==
    IF cs = <<>> THEN [raised |-> "ZeroDivisionError", index |-> "none"]
    ELSE [raised |-> "none", index |-> "built"]

\* HybridRetriever(domain, embedding_model): the model loads, or the load fails
\* and the retriever falls back to BM25 only
SInit ==
    /\ spc = "new" /\ domain \in Domains /\ embedding_model \in {"model", "none"}
    /\ bm25 = "none" /\ chunks = <<>> /\ chunk_embeddings = "none" /\ top_k = 0
    /\ results = <<>> /\ error = "none" /\ hybrid_scores = <<>> /\ top_idx = <<>>
    /\ hpc = "off" /\ h_outline = <<>> /\ h_validated = <<>>
    /\ epc = "off" /\ doc = UnopenableDoc /\ title = <<>> /\ toc_outline = <<>>
    /\ outline = <<>> /\ result = Pending /\ steps = <<>> /\ escaped = FALSE
    /\ cpc = "off" /\ c_input = Pending /\ c_once = Pending /\ c_twice = Pending
    /\ npc = "off" /\ n_token = <<>> /\ n_is_section = FALSE /\ n_level = "None"
    /\ tpc = "off" /\ t_page_text = <<>> /\ t_entries = <<>> /\ t_i = 0 /\ t_outline = <<>>
    /\ kpc = "off" /\ k_pages = <<>> /\ k_headings = <<>> /\ k_chunks = <<>>
    /\ apc = "off" /\ a_meta = NoMeta /\ a_chunks = <<>> /\ pdf_cache = <<>>
    /\ a_tasks = <<>> /\ a_response = NoResponse
    /\ gpc = "off" /\ g_el = NoElement /\ g_score = 0 /\ g_level = "None"
    /\ g_left = FALSE /\ g_first = FALSE

\* build_index(chunks) on a new retriever
BuildIndex ==
    /\ spc = "new"
    /\ \E cs \in ChunkLists :
          /\ chunks' = cs
          /\ IF BM25Okapi(cs).raised # "none"
                THEN /\ error' = BM25Okapi(cs).raised
                     /\ spc' = "build_failed"
                     /\ UNCHANGED <<bm25, chunk_embeddings>>
                ELSE /\ bm25' = BM25Okapi(cs).index
                     /\ chunk_embeddings' = IF embedding_model # "none" THEN "built" ELSE "none"
                     /\ spc' = "built"
                     /\ error' = "none"
    /\ UNCHANGED <<domain, embedding_model, top_k, results, hybrid_scores, top_idx>>
    /\ UNCHANGED <<hvars, evars, cvars, xvars>>

\* the score vectors of a search over n chunks. The first search on a
\* retriever of up to MaxChunks chunks draws every vector; on a longer list
\* every chunk has the lowest or the highest BM25 score and all chunks have
\* one similarity; a later search gives all chunks one score.
RawVectors(n, first) ==
    IF first /\ n <= MaxChunks THEN [1..n -> RawScores]
    ELSE IF first THEN [1..n -> {0, MaxOf(RawScores)}]
    ELSE {[i \in 1..n |-> r] : r \in RawScores}
EmbVectors(n, first) ==
    IF first /\ n <= MaxChunks THEN [1..n -> EmbScores]
    ELSE {[i \in 1..n |-> e] : e \in EmbScores}

\* search_top_k(query, persona, task, k), any number of times on the built
\* retriever: "if not self.bm25: raise ValueError";
\* max(bm25_scores) of no scores raises ValueError too
Search ==
    /\ spc \in {"built", "build_failed", "searched", "search_failed"}
    /\ \E k \in KChoices :
          /\ top_k' = k
          /\ IF bm25 = "none" \/ chunks = <<>>
                THEN /\ error' = "ValueError"
                     /\ spc' = "search_failed"
                     /\ UNCHANGED <<results, chunks, hybrid_scores, top_idx>>
                ELSE \E raw \in RawVectors(Len(chunks), spc = "built"),
                        emb \in EmbVectors(Len(chunks), spc = "built"), q \in Queries :
                        /\ embedding_model = "none" => emb = [i \in 1..Len(chunks) |-> 0]
                        /\ hybrid_scores' = hybrid_scores_of(raw, emb)
                        /\ top_idx' = top_indices(raw, emb, k)
                        /\ results' = search_top_k(raw, emb, k, q)
                        /\ chunks' = ChunksAfterSearch(chunks, top_indices(raw, emb, k),
                                                       search_top_k(raw, emb, k, q))
                        /\ spc' = "searched"
                        /\ error' = "none"
    /\ UNCHANGED <<domain, embedding_model, bm25, chunk_embeddings, hvars, evars, cvars, xvars>>

-----------------------------------------------------------------------------
(* _is_section_number and _get_heading_level on one token of the TOC text *)

\* the longest token
MaxTokenLen == 7

TokenChars == {"1", ".", "a"}
Tokens == UNION {[1..k -> TokenChars] : k \in 1..MaxTokenLen}

\* current_entry: a stripped, non-empty line of the page text
NInit ==
    /\ npc = "token" /\ n_token \in Tokens /\ n_is_section = FALSE /\ n_level = NoLevel
    /\ hpc = "off" /\ h_outline = <<>> /\ h_validated = <<>>
    /\ epc = "off" /\ doc = UnopenableDoc /\ title = <<>> /\ toc_outline = <<>>
    /\ outline = <<>> /\ result = Pending /\ steps = <<>> /\ escaped = FALSE
    /\ cpc = "off" /\ c_input = Pending /\ c_once = Pending /\ c_twice = Pending
    /\ spc = "off" /\ domain = "general" /\ embedding_model = "none" /\ bm25 = "none"
    /\ chunks = <<>> /\ chunk_embeddings = "none" /\ top_k = 0 /\ results = <<>>
    /\ error = "none" /\ hybrid_scores = <<>> /\ top_idx = <<>>
    /\ tpc = "off" /\ t_page_text = <<>> /\ t_entries = <<>> /\ t_i = 0 /\ t_outline = <<>>
    /\ kpc = "off" /\ k_pages = <<>> /\ k_headings = <<>> /\ k_chunks = <<>>
    /\ apc = "off" /\ a_meta = NoMeta /\ a_chunks = <<>> /\ pdf_cache = <<>>
    /\ a_tasks = <<>> /\ a_response = NoResponse
    /\ gpc = "off" /\ g_el = NoElement /\ g_score = 0 /\ g_level = "None"
    /\ g_left = FALSE /\ g_first = FALSE

\* if self._is_section_number(current_entry):
CallIsSectionNumber ==
    /\ npc = "token"
    /\ n_is_section' = _is_section_number(n_token)
    /\ npc' = "tested"
    /\ UNCHANGED <<n_token, n_level, hvars, evars, cvars, svars, tvars, kvars, avars, gvars>>

\* level = self._get_heading_level(section_num)
CallGetHeadingLevel ==
    /\ npc = "tested" /\ n_is_section
    /\ n_level' = _get_heading_level(n_token)
    /\ npc' = "levelled"
    /\ UNCHANGED <<n_token, n_is_section, hvars, evars, cvars, svars, tvars, kvars, avars, gvars>>

-----------------------------------------------------------------------------
(* get_outline_from_toc, one iteration of its outer loop at a time *)

\* the longest page text, in lines
MaxTocLines == 4

TocLinePool ==
    {<<"1">>, <<"2", ".", "1">>, <<"I", "n">>, <<"x">>, <<"1", "0", "0", "0">>, <<" ">>}

\* get_outline_from_toc(page_text) is called
TInit ==
    /\ tpc = "called" /\ t_page_text \in SeqsUpTo(TocLinePool, MaxTocLines)
    /\ t_entries = <<>> /\ t_i = 0 /\ t_outline = <<>>
    /\ hpc = "off" /\ h_outline = <<>> /\ h_validated = <<>>
    /\ epc = "off" /\ doc = UnopenableDoc /\ title = <<>> /\ toc_outline = <<>>
    /\ outline = <<>> /\ result = Pending /\ steps = <<>> /\ escaped = FALSE
    /\ cpc = "off" /\ c_input = Pending /\ c_once = Pending /\ c_twice = Pending
    /\ spc = "off" /\ domain = "general" /\ embedding_model = "none" /\ bm25 = "none"
    /\ chunks = <<>> /\ chunk_embeddings = "none" /\ top_k = 0 /\ results = <<>>
    /\ error = "none" /\ hybrid_scores = <<>> /\ top_idx = <<>>
    /\ npc = "off" /\ n_token = <<>> /\ n_is_section = FALSE /\ n_level = "None"
    /\ kpc = "off" /\ k_pages = <<>> /\ k_headings = <<>> /\ k_chunks = <<>>
    /\ apc = "off" /\ a_meta = NoMeta /\ a_chunks = <<>> /\ pdf_cache = <<>>
    /\ a_tasks = <<>> /\ a_response = NoResponse
    /\ gpc = "off" /\ g_el = NoElement /\ g_score = 0 /\ g_level = "None"
    /\ g_left = FALSE /\ g_first = FALSE

\* outline = []; entries = [the stripped non-blank lines]; i = 0 (here 1)
TocStart ==
    /\ tpc = "called"
    /\ t_entries' = SelectSeq([k \in 1..Len(t_page_text) |-> Strip(t_page_text[k])],
                              LAMBDA e : e # <<>>)
    /\ t_i' = 1
    /\ tpc' = "scan"
    /\ UNCHANGED <<t_page_text, t_outline, hvars, evars, cvars, svars, nvars, kvars, avars, gvars>>

\* one iteration of while i < len(entries), its inner loop and the final i += 1
TocIterate ==
    /\ tpc = "scan" /\ t_i <= Len(t_entries)
    /\ t_i' = TocStep(t_entries, t_i, t_outline).i
    /\ t_outline' = TocStep(t_entries, t_i, t_outline).outline
    /\ UNCHANGED <<tpc, t_page_text, t_entries, hvars, evars, cvars, svars, nvars, kvars, avars, gvars>>

\* the loop condition fails: return outline
TocReturn ==
    /\ tpc = "scan" /\ t_i > Len(t_entries)
    /\ tpc' = "returned"
    /\ UNCHANGED <<t_page_text, t_entries, t_i, t_outline, hvars, evars, cvars, svars, nvars, kvars, avars, gvars>>

-----------------------------------------------------------------------------
(* The chunker: extract_chunks_with_headings of extract/content_chunker.py *)

\* "\n".join(all_text_per_page)
AllText(pages) == Join(pages, <<"\n">>)

\* sorted(headings, key=len, reverse=True): longest first, ties in list order
RECURSIVE SortedByLen(_)
SortedByLen(hs) ==
    IF hs = <<>> THEN <<>>
    ELSE LET longest == MaxOf({Len(hs[i]) : i \in 1..Len(hs)})
             first == CHOOSE i \in 1..Len(hs) :
                         /\ Len(hs[i]) = longest
                         /\ \A j \in 1..(i - 1) : Len(hs[j]) # longest
         IN  <<hs[first]>> \o SortedByLen(SubSeq(hs, 1, first - 1) \o SubSeq(hs, first + 1, Len(hs)))

\* ^ and $ under re.MULTILINE, at the position before character p
LineStart(text, p) == p = 1 \/ text[p - 1] = "\n"
LineEnd(text, p) == p = Len(text) + 1 \/ text[p] = "\n"

\* h\s*$ matches from position p
AltMatches(text, p, h) ==
    /\ MatchAt(text, h, p)
    /\ \E q \in (p + Len(h))..(Len(text) + 1) :
          /\ \A r \in (p + Len(h))..(q - 1) : IsSpace(text[r])
          /\ LineEnd(text, q)

\* the positions at which (?=^(h1|h2|...)\s*$) matches, and what group 1 holds
SplitPoints(text, alts) ==
    {p \in 1..(Len(text) + 1) :
        LineStart(text, p) /\ \E k \in 1..Len(alts) : AltMatches(text, p, alts[k])}
Captured(text, p, alts) ==
    alts[CHOOSE k \in 1..Len(alts) :
            /\ AltMatches(text, p, alts[k])
            /\ \A j \in 1..(k - 1) : ~AltMatches(text, p, alts[j])]

\* re.split(split_pattern, all_text) from position last on: the text up to the
\* next match, the group, and so on; the rest of the text at the end
RECURSIVE SplitFrom(_, _, _, _)
SplitFrom(text, last, points, alts) ==
    IF points = {} THEN <<SubSeq(text, last, Len(text))>>
    ELSE LET p == CHOOSE x \in points : \A y \in points : x <= y IN
         <<SubSeq(text, last, p - 1), Captured(text, p, alts)>>
            \o SplitFrom(text, p, points \ {p}, alts)

re_split(text, headings) ==
    LET alts == SortedByLen(headings) IN SplitFrom(text, 1, SplitPoints(text, alts), alts)

\* find_page_number(content, pages): the first page holding content[:20], else 1
ContentPrefixLen == 20
find_page_number(content, pages) ==
    LET hits == {i \in 1..Len(pages) :
                    Contains(pages[i], SubSeq(content, 1, Min2(Len(content), ContentPrefixLen)))}
    IN  IF hits = {} THEN 1 ELSE CHOOSE i \in hits : \A j \in hits : i <= j

TxtDocumentContent ==
    <<"D","o","c","u","m","e","n","t"," ","C","o","n","t","e","n","t">>

\* the single chunk holding the whole text
WholeChunk(all_text) ==
    [heading |-> TxtDocumentContent, content |-> Strip(all_text),
     pdf_name |-> TxtFileName, page_number |-> 1]

\* the loop pairing each part with the part after it from the first part on
RECURSIVE PairChunks_FromFirst(_, _, _)
PairChunks_FromFirst(parts, i, pages) ==
    IF i - 1 > Len(parts) THEN <<>>
    ELSE LET heading == Strip(parts[i - 1])
             content == IF i <= Len(parts) THEN Strip(parts[i]) ELSE <<>>
         IN  (IF heading # <<>> /\ content # <<>>
                 THEN <<[heading |-> heading, content |-> content, pdf_name |-> TxtFileName,
                         page_number |-> find_page_number(content, pages)]>>
                 ELSE <<>>)
             \o PairChunks_FromFirst(parts, i + 2, pages)

\* the loop over the heading-content pairs of parts, from index i (1-based: 2)
RECURSIVE PairChunks(_, _, _)
PairChunks(parts, i, pages) ==
    IF i > Len(parts) THEN <<>>
    ELSE LET heading == Strip(parts[i])
             content == IF i + 1 <= Len(parts) THEN Strip(parts[i + 1]) ELSE <<>>
         IN  (IF heading # <<>> /\ content # <<>>
                 THEN <<[heading |-> heading, content |-> content, pdf_name |-> TxtFileName,
                         page_number |-> find_page_number(content, pages)]>>
                 ELSE <<>>)
             \o PairChunks(parts, i + 2, pages)

\* the chunker without the fallback chunks
extract_chunks_with_headings_NoFallback(pages, headings) ==
    IF headings = <<>> THEN <<>>
    ELSE PairChunks(re_split(AllText(pages), headings), 2, pages)

extract_chunks_with_headings(pages, headings) ==
    LET all_text == AllText(pages) IN
    IF headings = <<>>
        THEN IF Strip(all_text) # <<>> THEN <<WholeChunk(all_text)>> ELSE <<>>
    ELSE LET paired == PairChunks(re_split(all_text, headings), 2, pages) IN
         IF paired = <<>> /\ Strip(all_text) # <<>> THEN <<WholeChunk(all_text)>> ELSE paired

\* the longest page text, in characters
MaxPageLen == 5

PageChars == {"A", "B", "x", " ", "\n"}
PageTexts == SeqsUpTo(PageChars, MaxPageLen)
TwoPageDocs ==
    {<<p1, p2>> : p1, p2 \in {<<>>, <<"A">>, <<"A", "\n", "x">>, <<"B", " ", "\n", "x">>}}
ChunkerDocs == {<<>>} \cup {<<t>> : t \in PageTexts} \cup TwoPageDocs
HeadingLists ==
    {<<>>, << <<"A">> >>, << <<"A">>, <<"B">> >>, << <<"B">>, <<"A">> >>,
     << <<"A">>, <<"A", " ", "x">> >>, << <<" ">> >>}

\* a call of extract_chunks_with_headings(pdf_path, headings)
KInit ==
    /\ kpc = "called" /\ k_pages \in ChunkerDocs /\ k_headings \in HeadingLists
    /\ k_chunks = <<>>
    /\ hpc = "off" /\ h_outline = <<>> /\ h_validated = <<>>
    /\ epc = "off" /\ doc = UnopenableDoc /\ title = <<>> /\ toc_outline = <<>>
    /\ outline = <<>> /\ result = Pending /\ steps = <<>> /\ escaped = FALSE
    /\ cpc = "off" /\ c_input = Pending /\ c_once = Pending /\ c_twice = Pending
    /\ spc = "off" /\ domain = "general" /\ embedding_model = "none" /\ bm25 = "none"
    /\ chunks = <<>> /\ chunk_embeddings = "none" /\ top_k = 0 /\ results = <<>>
    /\ error = "none" /\ hybrid_scores = <<>> /\ top_idx = <<>>
    /\ npc = "off" /\ n_token = <<>> /\ n_is_section = FALSE /\ n_level = "None"
    /\ tpc = "off" /\ t_page_text = <<>> /\ t_entries = <<>> /\ t_i = 0 /\ t_outline = <<>>
    /\ apc = "off" /\ a_meta = NoMeta /\ a_chunks = <<>> /\ pdf_cache = <<>>
    /\ a_tasks = <<>> /\ a_response = NoResponse
    /\ gpc = "off" /\ g_el = NoElement /\ g_score = 0 /\ g_level = "None"
    /\ g_left = FALSE /\ g_first = FALSE

CallExtractChunks ==
    /\ kpc = "called"
    /\ k_chunks' = extract_chunks_with_headings(k_pages, k_headings)
    /\ kpc' = "returned"
    /\ UNCHANGED <<k_pages, k_headings, hvars, evars, cvars, svars, nvars, tvars, avars, gvars>>

-----------------------------------------------------------------------------
(* The service: cache-pdfs, append-pdf, process_pdfs_background, cache-status  *)
(* and query-pdfs of app.py, on one project.  A PDF is its content hash; the   *)
(* handlers are steps, a background task is a sequence of steps that other     *)
(* tasks and handlers interleave with.                                         *)

\* self.bm25_params: k1 in tenths, b in hundredths
bm25_params ==
    [travel   |-> [k1 |-> 12, b |-> 75],
     research |-> [k1 |-> 15, b |-> 60],
     business |-> [k1 |-> 10, b |-> 80],
     culinary |-> [k1 |-> 13, b |-> 70],
     general  |-> [k1 |-> 12, b |-> 75]]

\* detect_domain's keyword table, in the order the loop visits it
domain_keywords ==
    <<[domain |-> "travel",
       keywords |-> {<<"t","r","a","v","e","l">>,
                     <<"t","r","i","p">>,
                     <<"v","a","c","a","t","i","o","n">>,
                     <<"t","o","u","r","i","s","t">>,
                     <<"p","l","a","n","n","e","r">>,
                     <<"i","t","i","n","e","r","a","r","y">>,
                     <<"d","e","s","t","i","n","a","t","i","o","n">>}],
      [domain |-> "research",
       keywords |-> {<<"r","e","s","e","a","r","c","h">>,
                     <<"s","t","u","d","y">>,
                     <<"a","n","a","l","y","s","i","s">>,
                     <<"i","n","v","e","s","t","i","g","a","t","i","o","n">>,
                     <<"a","c","a","d","e","m","i","c">>,
                     <<"p","a","p","e","r">>}],
      [domain |-> "business",
       keywords |-> {<<"b","u","s","i","n","e","s","s">>,
                     <<"p","r","o","f","e","s","s","i","o","n","a","l">>,
                     <<"h","r">>,
                     <<"c","o","m","p","l","i","a","n","c","e">>,
                     <<"m","a","n","a","g","e","m","e","n","t">>,
                     <<"f","o","r","m">>}],
      [domain |-> "culinary",
       keywords |-> {<<"f","o","o","d">>,
                     <<"c","o","o","k","i","n","g">>,
                     <<"r","e","c","i","p","e">>,
                     <<"c","h","e","f">>,
                     <<"c","u","l","i","n","a","r","y">>,
                     <<"m","e","n","u">>,
                     <<"i","n","g","r","e","d","i","e","n","t">>}]>>

\* detect_domain(persona, task): the first domain one of whose keywords occurs
\* in the lowercased "persona task"
detect_domain(persona, task) ==
    LET combined_text == Lowercase(persona \o <<" ">> \o task)
        hits == {i \in 1..Len(domain_keywords) :
                    \E w \in domain_keywords[i].keywords : Contains(combined_text, w)}
    IN  IF hits = {} THEN "general"
        ELSE domain_keywords[CHOOSE i \in hits : \A j \in hits : i <= j].domain

TxtGeneral == <<"g","e","n","e","r","a","l">>

\* build_hybrid_index(chunks, domain): the retriever, or the exception raised by
\* BM25Okapi or (lib_fault) by the embedding libraries
build_hybrid_index(cs, dom, lib_fault) ==
    IF BM25Okapi(cs).raised # "none" \/ lib_fault
        THEN [raised |-> TRUE, retriever |-> NoRetriever]
        ELSE [raised |-> FALSE, retriever |-> [domain |-> dom, chunks |-> cs]]

\* the most cache keys handed out
MaxKeys == 2
Keys == 1..MaxKeys

\* the PDFs, by content hash: blank.pdf has no text
Pdfs == {"a.pdf", "b.pdf", "blank.pdf"}
\* extract_headings and extract_chunks_with_headings on one new PDF
ChunksOfPdf(f) == IF f = "blank.pdf" THEN <<>> ELSE <<[pdf_name |-> f]>>

\* the file lists of a cache-pdfs request
Uploads == {<<"a.pdf">>, <<"b.pdf">>, <<"blank.pdf">>, <<"a.pdf", "b.pdf">>, <<"a.pdf", "a.pdf">>}

\* persona and task of a query
QueryInputs ==
    {<<<<"G","e","n","e","r","a","l"," ","U","s","e","r">>, <<"S","u","m","m","a","r","i","s","e">>>>,
     <<<<"T","r","a","v","e","l"," ","P","l","a","n","n","e","r">>, <<"S","u","m","m","a","r","i","s","e">>>>,
     <<<<"R","e","s","e","a","r","c","h","e","r">>, <<"R","e","v","i","e","w"," ","t","h","e"," ","f","o","r","m">>>>,
     <<<<"G","e","n","e","r","a","l"," ","U","s","e","r">>, <<"R","e","v","i","e","w"," ","t","h","e"," ","f","o","r","m">>>>}

\* load_project_meta(name) or {"project_name": name, "files": []}, read through
\* .get("files", []) and .get("domain", "general")
DefaultMeta == [exists |-> TRUE, files |-> <<>>, domain |-> "general"]

\* the least key not handed out yet (a fresh uuid4)
FreshKey == CHOOSE k \in Keys : pdf_cache[k] = Absent /\ \A j \in 1..(k - 1) : pdf_cache[j] # Absent

SeqToSet(q) == {q[i] : i \in 1..Len(q)}

\* the service starts: nothing persisted, empty pdf_cache
AInit ==
    /\ apc = "serving" /\ a_meta = NoMeta /\ a_chunks = <<>>
    /\ pdf_cache = [k \in Keys |-> Absent] /\ a_tasks = [k \in Keys |-> NoTask]
    /\ a_response = NoResponse
    /\ hpc = "off" /\ h_outline = <<>> /\ h_validated = <<>>
    /\ epc = "off" /\ doc = UnopenableDoc /\ title = <<>> /\ toc_outline = <<>>
    /\ outline = <<>> /\ result = Pending /\ steps = <<>> /\ escaped = FALSE
    /\ cpc = "off" /\ c_input = Pending /\ c_once = Pending /\ c_twice = Pending
    /\ spc = "off" /\ domain = "general" /\ embedding_model = "none" /\ bm25 = "none"
    /\ chunks = <<>> /\ chunk_embeddings = "none" /\ top_k = 0 /\ results = <<>>
    /\ error = "none" /\ hybrid_scores = <<>> /\ top_idx = <<>>
    /\ npc = "off" /\ n_token = <<>> /\ n_is_section = FALSE /\ n_level = "None"
    /\ tpc = "off" /\ t_page_text = <<>> /\ t_entries = <<>> /\ t_i = 0 /\ t_outline = <<>>
    /\ kpc = "off" /\ k_pages = <<>> /\ k_headings = <<>> /\ k_chunks = <<>>
    /\ gpc = "off" /\ g_el = NoElement /\ g_score = 0 /\ g_level = "None"
    /\ g_left = FALSE /\ g_first = FALSE

\* the entry written before the background task starts
ProcessingEntry(existing_chunks, files_meta) ==
    [processing |-> TRUE, chunks |-> existing_chunks, pdf_files |-> files_meta]

\* POST /cache-pdfs with a project name and a list of files
CachePdfs ==
    /\ apc = "serving" /\ \E k \in Keys : pdf_cache[k] = Absent
    /\ \E files \in Uploads, lib_fault \in BOOLEAN :
        LET existing_meta == IF a_meta.exists THEN a_meta ELSE DefaultMeta
            existing_chunks == a_chunks
            new_files_meta == SelectSeq(files, LAMBDA f : f \notin SeqToSet(existing_meta.files))
            cache_key == FreshKey
            built == build_hybrid_index(existing_chunks, detect_domain(TxtGeneral, TxtGeneral),
                                        lib_fault)
        IN  IF new_files_meta = <<>> /\ existing_chunks # <<>>
               THEN \* Case 1: reuse
                    /\ pdf_cache' = [pdf_cache EXCEPT ![cache_key] =
                          IF built.raised
                             THEN [error |-> "Index build failed", chunks |-> existing_chunks]
                             ELSE [retriever |-> built.retriever, chunks |-> existing_chunks,
                                   domain |-> built.retriever.domain,
                                   pdf_files |-> existing_meta.files, reused |-> TRUE]]
                    /\ a_response' = [endpoint |-> "cache-pdfs", cache_key |-> cache_key,
                                      status |-> IF built.raised THEN 500 ELSE 200]
                    /\ UNCHANGED a_tasks
            ELSE IF new_files_meta = <<>>
               THEN \* Case 2: nothing to do
                    /\ ~lib_fault
                    /\ pdf_cache' = [pdf_cache EXCEPT ![cache_key] =
                          [empty |-> TRUE, chunks |-> <<>>, pdf_files |-> <<>>]]
                    /\ a_response' = [endpoint |-> "cache-pdfs", cache_key |-> cache_key,
                                      status |-> 200]
                    /\ UNCHANGED a_tasks
               ELSE \* Case 3: process the new files in the background
                    /\ ~lib_fault
                    /\ pdf_cache' = [pdf_cache EXCEPT ![cache_key] =
                          ProcessingEntry(existing_chunks, existing_meta.files)]
                    /\ a_tasks' = [a_tasks EXCEPT ![cache_key] =
                          [pc |-> "extract", pdf_files |-> new_files_meta,
                           existing_chunks |-> existing_chunks, existing_meta |-> existing_meta,
                           new_files_meta |-> new_files_meta, all_chunks |-> <<>>,
                           retriever |-> NoRetriever]]
                    /\ a_response' = [endpoint |-> "cache-pdfs", cache_key |-> cache_key,
                                      status |-> 200]
    /\ UNCHANGED <<apc, a_meta, a_chunks, hvars, evars, cvars, svars, nvars, tvars, kvars, gvars>>

\* POST /append-pdf with one file
AppendPdf ==
    /\ apc = "serving" /\ \E k \in Keys : pdf_cache[k] = Absent
    /\ \E file \in Pdfs, lib_fault \in BOOLEAN :
        LET meta == a_meta
            existing_chunks == a_chunks
            cache_key == FreshKey
        IN  IF ~meta.exists
               THEN \* Project not found
                    /\ ~lib_fault
                    /\ a_response' = [endpoint |-> "append-pdf", status |-> 404]
                    /\ UNCHANGED <<pdf_cache, a_tasks>>
            ELSE IF file \in SeqToSet(meta.files)
               THEN \* already present: build the retriever and return a reused entry
                    LET built == build_hybrid_index(existing_chunks, meta.domain, lib_fault) IN
                    /\ pdf_cache' = [pdf_cache EXCEPT ![cache_key] =
                          [retriever |-> built.retriever, chunks |-> existing_chunks,
                           domain |-> meta.domain, pdf_files |-> meta.files, reused |-> TRUE]]
                    /\ a_response' = [endpoint |-> "append-pdf", cache_key |-> cache_key,
                                      status |-> 200]
                    /\ UNCHANGED a_tasks
               ELSE /\ ~lib_fault
                    /\ pdf_cache' = [pdf_cache EXCEPT ![cache_key] =
                          ProcessingEntry(existing_chunks, meta.files)]
                    /\ a_tasks' = [a_tasks EXCEPT ![cache_key] =
                          [pc |-> "extract", pdf_files |-> <<file>>,
                           existing_chunks |-> existing_chunks, existing_meta |-> meta,
                           new_files_meta |-> <<file>>, all_chunks |-> <<>>,
                           retriever |-> NoRetriever]]
                    /\ a_response' = [endpoint |-> "append-pdf", cache_key |-> cache_key,
                                      status |-> 200]
    /\ UNCHANGED <<apc, a_meta, a_chunks, hvars, evars, cvars, svars, nvars, tvars, kvars, gvars>>

\* save_project_state(project_name, meta, chunks) writes meta.json, then
\* chunks.json: it raises before the first write, between the two, or not at all
SaveOutcomes == {"failed", "meta_only", "written"}

\* what load_project_meta reads after save_project_state wrote meta.json
save_project_state(files, dom) == [exists |-> TRUE, files |-> files, domain |-> dom]

\* process_pdfs_background: the loop over the new PDFs; a PDF whose extraction
\* raises is skipped after a message
BgExtract ==
    /\ apc = "serving"
    /\ \E key \in Keys :
          /\ a_tasks[key].pc = "extract"
          /\ LET t == a_tasks[key]
                 all_chunks == t.existing_chunks
                                 \o Concat([i \in 1..Len(t.pdf_files) |-> ChunksOfPdf(t.pdf_files[i])])
             IN  a_tasks' = [a_tasks EXCEPT ![key].all_chunks = all_chunks,
                                            ![key].pc = IF all_chunks = <<>> THEN "save_empty"
                                                        ELSE "build"]
    /\ UNCHANGED <<apc, a_meta, a_chunks, pdf_cache, a_response>>
    /\ UNCHANGED <<hvars, evars, cvars, svars, nvars, tvars, kvars, gvars>>

\* "if not all_chunks": the project is saved with no chunks and the key gets a
\* placeholder; a failing write ends the task in the outer except clause
BgSaveEmpty ==
    /\ apc = "serving"
    /\ \E key \in Keys, outcome \in SaveOutcomes :
          /\ a_tasks[key].pc = "save_empty"
          /\ LET t == a_tasks[key]
                 merged == t.existing_meta.files \o t.new_files_meta
             IN  /\ a_meta' = IF outcome = "failed" THEN a_meta
                              ELSE save_project_state(merged, "general")
                 /\ a_chunks' = IF outcome = "written" THEN <<>> ELSE a_chunks
                 /\ pdf_cache' = IF outcome = "written"
                                    THEN [pdf_cache EXCEPT ![key] =
                                            [chunks |-> <<>>, domain |-> "general",
                                             pdf_files |-> merged, empty |-> TRUE]]
                                    ELSE pdf_cache
          /\ a_tasks' = [a_tasks EXCEPT ![key].pc = "done"]
    /\ UNCHANGED <<apc, a_response, hvars, evars, cvars, svars, nvars, tvars, kvars, gvars>>

\* retriever = build_hybrid_index(all_chunks, domain=detect_domain("general",
\* "general")); except Exception: retriever = None
BgBuild ==
    /\ apc = "serving"
    /\ \E key \in Keys, lib_fault \in BOOLEAN :
          /\ a_tasks[key].pc = "build"
          /\ a_tasks' = [a_tasks EXCEPT
                ![key].retriever =
                    build_hybrid_index(a_tasks[key].all_chunks,
                                       detect_domain(TxtGeneral, TxtGeneral), lib_fault).retriever,
                ![key].pc = "save"]
    /\ UNCHANGED <<apc, a_meta, a_chunks, pdf_cache, a_response>>
    /\ UNCHANGED <<hvars, evars, cvars, svars, nvars, tvars, kvars, gvars>>

\* save_project_state(project_name, {**existing_meta, files: merged, domain},
\* all_chunks); a failing write ends the task in the outer except clause
BgSave ==
    /\ apc = "serving"
    /\ \E key \in Keys, outcome \in SaveOutcomes :
          /\ a_tasks[key].pc = "save"
          /\ LET t == a_tasks[key] IN
             /\ a_meta' = IF outcome = "failed" THEN a_meta
                          ELSE save_project_state(t.existing_meta.files \o t.new_files_meta,
                                                  detect_domain(TxtGeneral, TxtGeneral))
             /\ a_chunks' = IF outcome = "written" THEN t.all_chunks ELSE a_chunks
             /\ a_tasks' = [a_tasks EXCEPT ![key].pc = IF outcome = "written" THEN "publish"
                                                       ELSE "done"]
    /\ UNCHANGED <<apc, pdf_cache, a_response, hvars, evars, cvars, svars, nvars, tvars, kvars, gvars>>

\* pdf_cache[cache_key] = {"retriever": retriever, ..., "index_error": retriever is None}
BgPublish ==
    /\ apc = "serving"
    /\ \E key \in Keys :
          /\ a_tasks[key].pc = "publish"
          /\ LET t == a_tasks[key] IN
             pdf_cache' = [pdf_cache EXCEPT ![key] =
                 [retriever |-> t.retriever, chunks |-> t.all_chunks,
                  domain |-> detect_domain(TxtGeneral, TxtGeneral),
                  pdf_files |-> t.existing_meta.files \o t.new_files_meta,
                  index_error |-> t.retriever = NoRetriever]]
          /\ a_tasks' = [a_tasks EXCEPT ![key].pc = "done"]
    /\ UNCHANGED <<apc, a_meta, a_chunks, a_response>>
    /\ UNCHANGED <<hvars, evars, cvars, svars, nvars, tvars, kvars, gvars>>

\* GET /cache-status/{cache_key}
CacheStatus ==
    /\ apc = "serving"
    /\ \E key \in Keys :
          a_response' =
              IF pdf_cache[key] # Absent /\ "retriever" \in DOMAIN pdf_cache[key]
                 THEN [endpoint |-> "cache-status", cache_key |-> key, ready |-> TRUE,
                       chunk_count |-> Len(pdf_cache[key].chunks),
                       domain |-> pdf_cache[key].domain]
                 ELSE [endpoint |-> "cache-status", cache_key |-> key, ready |-> FALSE]
    /\ UNCHANGED <<apc, a_meta, a_chunks, pdf_cache, a_tasks>>
    /\ UNCHANGED <<hvars, evars, cvars, svars, nvars, tvars, kvars, gvars>>

\* POST /query-pdfs: 404 for an unknown key, 500 when the entry has no
\* retriever key (KeyError) or the retriever is None or the search raises,
\* else the results, scored by the cached retriever, and the metadata
QueryPdfs ==
    /\ apc = "serving"
    /\ \E key \in Keys, q \in QueryInputs, search_fault \in BOOLEAN :
          LET cached_data == pdf_cache[key]
              detected_domain == detect_domain(q[1], q[2])
          IN  a_response' =
                IF cached_data = Absent
                   THEN [endpoint |-> "query-pdfs", cache_key |-> key, status |-> 404]
                ELSE IF "retriever" \notin DOMAIN cached_data
                        \/ cached_data.retriever = NoRetriever
                        \/ search_fault
                   THEN [endpoint |-> "query-pdfs", cache_key |-> key, status |-> 500]
                   ELSE [endpoint |-> "query-pdfs", cache_key |-> key, status |-> 200,
                         domain |-> detected_domain,
                         weights |-> hybrid_weights[cached_data.retriever.domain],
                         params |-> bm25_params[cached_data.retriever.domain]]
    /\ UNCHANGED <<apc, a_meta, a_chunks, pdf_cache, a_tasks>>
    /\ UNCHANGED <<hvars, evars, cvars, svars, nvars, tvars, kvars, gvars>>

ANext ==
    \/ CachePdfs \/ AppendPdf
    \/ BgExtract \/ BgSaveEmpty \/ BgBuild \/ BgSave \/ BgPublish
    \/ CacheStatus \/ QueryPdfs

-----------------------------------------------------------------------------
(* The classification of one span *)

MaxPageIndex == 2
PageSize == [width |-> 600, height |-> 800]
Italic == 2
BaselineSize == [num |-> 12, den |-> 1]

SpanTexts == {TxtScope, TxtDetails, TxtBody, TxtIntroduction, <<"x">>}
SpanSizes == {10, 12, 14, 16, 18, 20}
SpanFlags == {0, Italic, Bold, Bold + Italic}
\* block origins on both sides of a tenth of the page width and height
SpanX0 == {30, 59, 60, 300}
SpanY0 == {40, 79, 80, 400}

\* the elements extract_outline collects: stripped non-empty text, size, flags,
\* relative block origin and the 0-based page index
SpanElements ==
    {[text |-> t, font_size |-> sz, font_flags |-> fl,
      y_position |-> [num |-> y0, den |-> PageSize.height],
      x_position |-> [num |-> x0, den |-> PageSize.width],
      page |-> p] :
        t \in SpanTexts, sz \in SpanSizes, fl \in SpanFlags,
        y0 \in SpanY0, x0 \in SpanX0, p \in 0..MaxPageIndex}

GInit ==
    /\ gpc = "collected" /\ g_el \in SpanElements /\ g_score = 0 /\ g_level = "None"
    /\ g_left = FALSE /\ g_first = FALSE
    /\ hpc = "off" /\ h_outline = <<>> /\ h_validated = <<>>
    /\ epc = "off" /\ doc = UnopenableDoc /\ title = <<>> /\ toc_outline = <<>>
    /\ outline = <<>> /\ result = Pending /\ steps = <<>> /\ escaped = FALSE
    /\ cpc = "off" /\ c_input = Pending /\ c_once = Pending /\ c_twice = Pending
    /\ spc = "off" /\ domain = "general" /\ embedding_model = "none" /\ bm25 = "none"
    /\ chunks = <<>> /\ chunk_embeddings = "none" /\ top_k = 0 /\ results = <<>>
    /\ error = "none" /\ hybrid_scores = <<>> /\ top_idx = <<>>
    /\ npc = "off" /\ n_token = <<>> /\ n_is_section = FALSE /\ n_level = "None"
    /\ tpc = "off" /\ t_page_text = <<>> /\ t_entries = <<>> /\ t_i = 0 /\ t_outline = <<>>
    /\ kpc = "off" /\ k_pages = <<>> /\ k_headings = <<>> /\ k_chunks = <<>>
    /\ apc = "off" /\ a_meta = NoMeta /\ a_chunks = <<>> /\ pdf_cache = <<>>
    /\ a_tasks = <<>> /\ a_response = NoResponse

\* one iteration of the detection loop of extract_outline: detect_heading_level
\* on the element; a text shorter than 2 or longer than 300 characters returns
\* before any score is computed
ClassifySpan ==
    /\ gpc = "collected"
    /\ LET el == g_el
           clean_text == Strip(el.text)
       IN  IF Len(clean_text) < MinTextLen \/ Len(clean_text) > MaxTextLen
              THEN /\ gpc' = "rejected"
                   /\ UNCHANGED <<g_score, g_left, g_first>>
              ELSE /\ gpc' = "scored"
                   /\ g_score' = HeadingScore(el.text, el.font_size, el.font_flags, BaselineSize,
                                              CallArgs(el).x_position, CallArgs(el).page_num)
                   /\ g_left' = is_left_aligned(CallArgs(el).x_position)
                   /\ g_first' = first_page_bonus(CallArgs(el).page_num)
    /\ g_level' = ClassifyElement(g_el, BaselineSize)
    /\ UNCHANGED <<g_el, hvars, evars, cvars, svars, nvars, tvars, kvars, avars>>

-----------------------------------------------------------------------------
(* Specifications *)

\* validate_hierarchy alone
SpecHierarchy == HInit /\ [][CallValidateHierarchy]_vars

\* one call of extract_outline
SpecExtract == EInit /\ [][ENext]_vars

\* the cleaning pass applied twice
SpecClean == CInit /\ [][CleanOnce \/ CleanTwice]_vars

\* one retriever: build, then search
SpecSearch == SInit /\ [][BuildIndex \/ Search]_vars

\* the section-number test and the level of a token
SpecSection == NInit /\ [][CallIsSectionNumber \/ CallGetHeadingLevel]_vars

\* one call of get_outline_from_toc
SpecToc == TInit /\ [][TocStart \/ TocIterate \/ TocReturn]_vars

\* one call of the chunker
SpecChunk == KInit /\ [][CallExtractChunks]_vars

\* the classification of one span
SpecScore == GInit /\ [][ClassifySpan]_vars

\* the service
SpecService == AInit /\ [][ANext]_vars

Init == HInit \/ EInit \/ CInit \/ SInit \/ NInit \/ TInit \/ KInit \/ AInit \/ GInit

Next ==
    \/ CallValidateHierarchy
    \/ ENext
    \/ CleanOnce \/ CleanTwice
    \/ BuildIndex \/ Search
    \/ CallIsSectionNumber \/ CallGetHeadingLevel
    \/ TocStart \/ TocIterate \/ TocReturn
    \/ CallExtractChunks
    \/ ANext
    \/ ClassifySpan

Spec == Init /\ [][Next]_vars

-----------------------------------------------------------------------------
(* Properties of validate_hierarchy *)

\* C1: for every sequence of heading candidates, the list validate_hierarchy
\* returns has no H3 entry without an H2 entry between it and the most recent
\* preceding H1 (or the start of the list), and no H2 entry without a preceding
\* H1 unless that H2 is the first entry of the list.
C1_HierarchyNesting ==
    hpc = "returned" =>
        \A i \in 1..Len(h_validated) :
            /\ h_validated[i].level = "H3" =>
                  \E j \in 1..(i - 1) :
                      /\ h_validated[j].level = "H2"
                      /\ \A m \in (j + 1)..(i - 1) : h_validated[m].level # "H1"
            /\ h_validated[i].level = "H2" =>
                  \/ i = 1
                  \/ \E j \in 1..(i - 1) : h_validated[j].level = "H1"

\* a call that dropped a candidate and returned an H2 and an H3 after an H1
C1_Witness ==
    /\ hpc = "returned"
    /\ Len(h_validated) < Len(h_outline)
    /\ \E i, j, m \in 1..Len(h_validated) :
          /\ i < j /\ j < m
          /\ h_validated[i].level = "H1"
          /\ h_validated[j].level = "H2"
          /\ h_validated[m].level = "H3"

-----------------------------------------------------------------------------
(* Properties of extract_outline *)

\* the call ended in the except clause
Excepted == steps # <<>> /\ steps[Len(steps)] = "except"

\* the result of the except clause
ErrorResult(d) == [title |-> TxtErrorPrefix \o d.name, outline |-> <<>>]

\* C2: extract_outline never raises to its caller: on every path (unopenable
\* file, an exception during title extraction, TOC detection, classification or
\* cleaning) what it returns is a dict with exactly the keys title and outline,
\* and on failure that dict is
\* {title: "Error processing <file name>", outline: []}.
C2_NeverRaises ==
    /\ ~escaped
    /\ epc = "done" =>
          /\ DOMAIN result = {"title", "outline"}
          /\ Excepted => result = ErrorResult(doc)

\* a document without injected fault whose title extraction raised, and for
\* which the degraded result was returned
C2_Witness ==
    /\ epc = "done" /\ doc.openable /\ doc.fault = "none"
    /\ steps = <<"open", "extract_title", "except">>
    /\ result = ErrorResult(doc)

\* the top half of page 1 holds no span
NoTopHalfSpans(d) ==
    \/ Len(d.pages) = 0
    \/ \A k \in 1..Len(PageSpans(d.pages[1])) :
          ~InTopHalf(PageSpans(d.pages[1])[k].y0, d.pages[1])

\* C3: title extraction is total: for every document (none of whose library
\* calls fails) extract_title completes without raising and returns a string,
\* the empty string when the top half of page 1 has no spans; this includes a
\* document with zero pages and a document whose first top-half line is a
\* continuation line before any maximum-font line.
C3_TitleTotal ==
    (doc.openable /\ doc.fault = "none" /\ Len(steps) >= 2) =>
        /\ steps[2] = "extract_title"
        /\ Len(steps) >= 3 => steps[3] # "except"
        /\ title # PyNone
        /\ NoTopHalfSpans(doc) => title = <<>>

\* the outline returned is made of entries of src only
EntriesFrom(out, src) ==
    \A i \in 1..Len(out) : \E j \in 1..Len(src) : out[i] = src[j]

\* the steps of a call in which the TOC is the source, and of one in which
\* classification is
TocPath ==
    <<"open", "extract_title", "detect_table_of_contents", "validate_and_clean_result">>
ClassifyPath ==
    <<"open", "extract_title", "detect_table_of_contents", "classify",
      "validate_hierarchy", "validate_and_clean_result">>

\* C4: for each document exactly one outline source is used.  If TOC detection
\* yields at least one entry, every entry of the returned outline is an entry of
\* the TOC and neither the classification nor validate_hierarchy runs; otherwise
\* every entry comes from the classification followed by validate_hierarchy.  In
\* both cases the cleaning pass runs exactly once, as the last step.  (A call
\* that ends in the except clause runs no step after the one that raised.)
C4_OneSource ==
    /\ \A i \in 1..Len(steps) :
          /\ steps[i] \in {"classify", "validate_hierarchy"} =>
                /\ i > 3 /\ steps[3] = "detect_table_of_contents"
                /\ toc_outline = <<>>
          /\ steps[i] = "validate_and_clean_result" =>
                \/ i = Len(steps)
                \/ i = Len(steps) - 1 /\ Excepted
    /\ (epc = "done" /\ ~Excepted) =>
          IF toc_outline # <<>>
             THEN /\ steps = TocPath
                  /\ EntriesFrom(result.outline, toc_outline)
             ELSE /\ steps = ClassifyPath
                  /\ EntriesFrom(result.outline, validate_hierarchy(ClassifyDocument(doc)))

\* a document with a TOC whose spans would also classify as headings: the
\* outline returned holds entries, all of the TOC
C4_Witness ==
    /\ epc = "done" /\ ~Excepted
    /\ toc_outline # <<>> /\ result.outline # <<>>
    /\ validate_hierarchy(ClassifyDocument(doc)) # <<>>
    /\ ~EntriesFrom(result.outline, validate_hierarchy(ClassifyDocument(doc)))

\* detect_table_of_contents has returned
TocReturned ==
    /\ Len(steps) >= 3 /\ steps[3] = "detect_table_of_contents"
    /\ Len(steps) > 3 => steps[4] # "except"

\* C5: TOC detection tries the embedded TOC first and the textual scan second,
\* and the first strategy that produces an entry wins: whenever the embedded TOC
\* produces no entry (no bookmarks, or bookmarks all discarded) the textual scan
\* of the first pages is still made, and None is returned only if both
\* strategies produce no entry.
C5_FirstSuccessWins ==
    TocReturned =>
        toc_outline = IF EmbeddedToc(doc) # <<>> THEN EmbeddedToc(doc)
                      ELSE TextualToc(doc, 1)

-----------------------------------------------------------------------------
(* Properties of validate_and_clean_result *)

\* C6: the cleaning pass is idempotent: for every result R,
\* validate_and_clean_result(validate_and_clean_result(R)) has the same title
\* and the same outline (same entries, same order) as validate_and_clean_result(R).
C6_CleanIdempotent ==
    cpc = "twice" =>
        /\ c_twice.title = c_once.title
        /\ c_twice.outline = c_once.outline

\* a result whose title the first pass rewrote and whose outline it shortened
\* to a non-empty one, cleaned twice
C6_Witness ==
    /\ cpc = "twice"
    /\ c_once.title # c_input.title
    /\ c_once.outline # <<>>
    /\ Len(c_once.outline) < Len(c_input.outline)

\* C7: for the single-page PDF without a TOC whose title is "Annual Report
\* 2024" and which has one heading line "Executive Summary" at 1.5 times the
\* baseline font, extract_outline returns an outline of exactly one entry
\* {level: "H1", text: "Executive Summary", page: 0}.
C7_ScenarioOutline ==
    (doc = ScenarioDoc /\ epc = "done") =>
        result.outline = << [level |-> "H1", text |-> TxtExecutiveSummary, page |-> 0] >>

-----------------------------------------------------------------------------
(* Properties of the hybrid retriever *)

\* C8: in every result list search_top_k returns (any chunk set, any scores,
\* any k) no two results have the same pdf_name; with 3 chunks of one document
\* and 2 of another and k = 5, at most one result comes from each document.
C8_DistinctDocuments ==
    \A i, j \in 1..Len(results) :
        i # j => results[i].pdf_name # results[j].pdf_name

\* the search with k = 5 over three chunks of a.pdf and two of b.pdf that
\* returns one chunk of each
C8_Witness ==
    /\ spc = "searched" /\ chunks = ScenarioChunks /\ top_k = 5
    /\ Len(results) = 2

\* C9: when no embedding backend is available (embedding_model is None),
\* build_index and search_top_k still succeed, every returned result has
\* hybrid_score equal to its bm25_score, and no returned result carries an
\* embedding_score key.
C9_LexicalOnly ==
    embedding_model = "none" =>
        /\ error = "none"
        /\ \A i \in 1..Len(results) :
              /\ results[i].hybrid_score = results[i].bm25_score
              /\ "embedding_score" \notin DOMAIN results[i]

\* C10: building an index over an empty chunk list and then searching it with
\* any query and any k completes without raising and returns an empty result
\* list.
C10_EmptyChunkList ==
    (spc \notin {"off", "new"} /\ chunks = <<>>) =>
        /\ error = "none"
        /\ spc \in {"built", "searched"}
        /\ results = <<>>

-----------------------------------------------------------------------------
(* validate_hierarchy as a filter *)

\* a is b with some entries left out, order kept
RECURSIVE IsSubseq(_, _)
IsSubseq(a, b) ==
    IF a = <<>> THEN TRUE
    ELSE IF b = <<>> THEN FALSE
    ELSE IF Head(a) = Head(b) THEN IsSubseq(Tail(a), Tail(b))
    ELSE IsSubseq(a, Tail(b))

\* the entries of level lv, in order
OfLevel(items, lv) == SelectSeq(items, LAMBDA it : it.level = lv)

\* C17: validate_hierarchy only drops candidates: what it returns is its input
\* with some entries left out, in the input's order, every kept entry with the
\* level, text and page it came in with, and every H1 of the input is kept.
C17_OnlyDrops ==
    hpc = "returned" =>
        /\ IsSubseq(h_validated, h_outline)
        /\ OfLevel(h_validated, "H1") = OfLevel(h_outline, "H1")

\* a call that rejected an H3 and an H2 and kept an H1
C17_Witness ==
    /\ hpc = "returned"
    /\ Len(OfLevel(h_validated, "H1")) >= 1
    /\ Len(OfLevel(h_outline, "H3")) > Len(OfLevel(h_validated, "H3"))
    /\ Len(OfLevel(h_outline, "H2")) > Len(OfLevel(h_validated, "H2"))

-----------------------------------------------------------------------------
(* The outline extract_outline returns on the classification path *)

\* the level-nesting constraint on a list of entries
Nested(items) ==
    \A i \in 1..Len(items) :
        /\ items[i].level = "H3" =>
              \E j \in 1..(i - 1) :
                  /\ items[j].level = "H2"
                  /\ \A m \in (j + 1)..(i - 1) : items[m].level # "H1"
        /\ items[i].level = "H2" =>
              \/ i = 1
              \/ \E j \in 1..(i - 1) : items[j].level = "H1"

\* C18: on the non-TOC path the outline extract_outline returns, after
\* validate_hierarchy and then the cleaning pass, satisfies the level-nesting
\* constraint: no H3 without an H2 since the last H1, and no H2 without a
\* preceding H1 unless it is the first entry.
C18_ReturnedNesting ==
    (epc = "done" /\ steps = ClassifyPath) => Nested(result.outline)

-----------------------------------------------------------------------------
(* Section numbers of the textual table of contents *)

\* s[i..] matches (\.\d+)*\.?$
RECURSIVE DottedTail(_, _)
DottedTail(s, i) ==
    \/ i = Len(s) + 1
    \/ i = Len(s) /\ s[i] = "."
    \/ /\ i < Len(s) /\ s[i] = "." /\ IsDigit(s[i + 1])
       /\ DottedTail(s, RunEnd(s, i + 1, Digit))

\* s matches ^\d+(\.\d+)*\.?$
SectionRegex(s) == s # <<>> /\ IsDigit(s[1]) /\ DottedTail(s, RunEnd(s, 1, Digit))

\* the number of maximal runs of digits in s
DigitRuns(s) ==
    Cardinality({i \in 1..Len(s) : IsDigit(s[i]) /\ (i = 1 \/ ~IsDigit(s[i - 1]))})

\* C19: in the textual TOC parser a token is treated as a section number
\* exactly when it matches ^\d+(\.\d+)*\.?$, and the level given to a section
\* number is H1 for one numeric part, H2 for two, H3 for three or more.
C19_SectionNumber ==
    /\ npc # "token" /\ npc # "off" => (n_is_section <=> SectionRegex(n_token))
    /\ npc = "levelled" =>
          n_level = IF DigitRuns(n_token) = 1 THEN "H1"
                    ELSE IF DigitRuns(n_token) = 2 THEN "H2" ELSE "H3"

-----------------------------------------------------------------------------
(* Progress of the textual TOC scan *)

\* C20: get_outline_from_toc terminates on every finite list of lines: each
\* iteration of the outer loop leaves the scan index strictly greater than it
\* found it (also when the unnumbered-entry branch backs up one position on
\* meeting a section number) and at most two past the last entry, and an
\* iteration emits at most one entry, only when the token it stopped at is a
\* page number (all digits, below 1000), whose value gives the entry's page;
\* an entry still open at the end of the text is not emitted.
C20_ScanProgress ==
    [][(tpc = "scan" /\ tpc' = "scan") =>
          /\ t_i' > t_i
          /\ t_i' <= Len(t_entries) + 2
          /\ t_outline' # t_outline =>
                /\ Len(t_outline') = Len(t_outline) + 1
                /\ SubSeq(t_outline', 1, Len(t_outline)) = t_outline
                /\ t_i' - 1 \in 1..Len(t_entries)
                /\ IsPageNumber(t_entries[t_i' - 1])
                /\ t_outline'[Len(t_outline')].page \in
                      {IntOf(t_entries[t_i' - 1]), IntOf(t_entries[t_i' - 1]) - 1}
      ]_vars

\* a call that backed up on the section number after an unnumbered entry,
\* emitted the numbered entry at its page number, and returned
C20_Witness ==
    /\ tpc = "returned"
    /\ t_entries = <<<<"I", "n">>, <<"2", ".", "1">>, <<"x">>, <<"1">>>>
    /\ Len(t_outline) = 1 /\ t_outline[1].level = "H2"

-----------------------------------------------------------------------------
(* Searching reads the index *)

\* C15: search_top_k is a pure read of the built index: over any sequence of
\* searches the retriever's chunk list, every stored chunk record (its keys
\* and values), the BM25 index, the chunk embeddings and the domain keep the
\* values they had right after build_index; the score annotations are written
\* to per-result copies only.
C15_PureRead ==
    [][spc # "new" =>
          /\ chunks' = chunks
          /\ bm25' = bm25
          /\ chunk_embeddings' = chunk_embeddings
          /\ domain' = domain]_vars

\* a search returned two annotated results and the stored records carry no
\* annotation
C15_Witness ==
    /\ spc = "searched" /\ Len(results) = 2
    /\ \A r \in 1..Len(results) : "hybrid_score" \in DOMAIN results[r]
    /\ \A i \in 1..Len(chunks) : DOMAIN chunks[i] = {"heading", "pdf_name"}

-----------------------------------------------------------------------------
(* The fusion of the lexical and the semantic score *)

\* a score between 0.0 and 1.0
UnitScore(s) == s >= 0 /\ s <= ScoreUnit

\* C12: for each of the five domains the fusion weights are non-negative and
\* add up to 1.0 (ten tenths), and every returned chunk whose lexical and
\* semantic scores are both in [0,1] has a fused hybrid_score
\* w_lex * lexical + w_sem * semantic in [0,1].
C12_FusionBound ==
    /\ DOMAIN hybrid_weights = Domains
    /\ \A d \in Domains :
          /\ hybrid_weights[d].bm25 >= 0 /\ hybrid_weights[d].embedding >= 0
          /\ hybrid_weights[d].bm25 + hybrid_weights[d].embedding = 10
    /\ \A r \in 1..Len(results) :
          ("embedding_score" \in DOMAIN results[r]
              /\ UnitScore(results[r].bm25_score)
              /\ UnitScore(results[r].embedding_score)) =>
             /\ UnitScore(results[r].hybrid_score)
             /\ 10 * results[r].hybrid_score =
                   hybrid_weights[domain].bm25 * results[r].bm25_score
                   + hybrid_weights[domain].embedding * results[r].embedding_score

\* a fused search returned a chunk whose two scores are both 1.0, and one
\* whose lexical score is strictly between 0 and 1
C12_Witness ==
    /\ spc = "searched" /\ Len(results) = 2
    /\ "embedding_score" \in DOMAIN results[1]
    /\ results[1].bm25_score = ScoreUnit /\ results[1].embedding_score = ScoreUnit
    /\ results[1].hybrid_score = ScoreUnit
    /\ results[2].bm25_score > 0 /\ results[2].bm25_score < ScoreUnit

-----------------------------------------------------------------------------
(* Properties of the chunker *)

\* the document has some text that is not white space
HasText(pages) == \E i \in 1..Len(AllText(pages)) : ~IsSpace(AllText(pages)[i])

\* C13: extract_chunks_with_headings returns at least one chunk whenever the
\* document has any non-whitespace text, whatever the heading list is (empty,
\* or non-empty with no heading matching a line); with an empty heading list
\* it returns exactly one chunk, holding the whole stripped text; and it
\* returns no chunk when the text is empty or white space only.
C13_ChunkFallback ==
    kpc = "returned" =>
        /\ HasText(k_pages) => Len(k_chunks) >= 1
        /\ (HasText(k_pages) /\ k_headings = <<>>) =>
              /\ Len(k_chunks) = 1
              /\ k_chunks[1].content = Strip(AllText(k_pages))
        /\ ~HasText(k_pages) => k_chunks = <<>>

\* a heading list none of whose headings is a line of the text: one chunk with
\* the whole text
C13_Witness ==
    /\ kpc = "returned"
    /\ k_headings = << <<"A">>, <<"B">> >>
    /\ k_pages = << <<"x", "A", "\n", "B", "x">> >>
    /\ Len(k_chunks) = 1 /\ k_chunks[1].content = <<"x", "A", "\n", "B", "x">>

\* the lines of a text, and the position at which line k starts
RECURSIVE SplitLines(_)
SplitLines(text) ==
    IF \A i \in 1..Len(text) : text[i] # "\n" THEN <<text>>
    ELSE LET nl == CHOOSE i \in 1..Len(text) :
                      text[i] = "\n" /\ \A j \in 1..(i - 1) : text[j] # "\n"
         IN  <<SubSeq(text, 1, nl - 1)>> \o SplitLines(SubSeq(text, nl + 1, Len(text)))
LinePos(lines, k) == 1 + SumSeq([j \in 1..(k - 1) |-> Len(lines[j]) + 1])

\* the lines of text that are the heading h (trailing blanks aside)
HeadingLines(text, h) ==
    {k \in 1..Len(SplitLines(text)) : RStripIn(SplitLines(text)[k], Space) = h}

\* the text has the heading h1 on one line and, further down, h2 on one line
HeadingsInOrder(text, h1, h2) ==
    /\ Cardinality(HeadingLines(text, h1)) = 1
    /\ Cardinality(HeadingLines(text, h2)) = 1
    /\ \A a \in HeadingLines(text, h1), b \in HeadingLines(text, h2) : a < b

\* the two chunks of a text with h1 on line a and h2 on line b
TwoChunks(text, h1, h2, out) ==
    LET lines == SplitLines(text)
        a == CHOOSE k \in HeadingLines(text, h1) : TRUE
        b == CHOOSE k \in HeadingLines(text, h2) : TRUE
        between == Strip(SubSeq(text, LinePos(lines, a) + Len(h1), LinePos(lines, b) - 1))
        after == Strip(SubSeq(text, LinePos(lines, b) + Len(h2), Len(text)))
    IN  /\ Len(out) = 2
        /\ out[1].heading = h1 /\ out[2].heading = h2
        /\ Contains(out[1].content, between)
        /\ Contains(out[2].content, after)
        /\ out[1].content = Strip(SubSeq(text, LinePos(lines, a), LinePos(lines, b) - 1))
        /\ out[2].content = Strip(SubSeq(text, LinePos(lines, b), Len(text)))

\* C14: for a document whose text has the headings h1 and then h2 of the
\* headings list (each on one line of the text, h1's line before h2's),
\* extract_chunks_with_headings returns exactly two chunks, in that order, with
\* heading fields h1 and h2; the first chunk's content contains the text
\* between h1 and h2 and the second's the text from h2 to the end of the
\* document.
C14_TwoHeadings ==
    (kpc = "returned" /\ Len(k_headings) = 2) =>
        \A i, j \in 1..2 :
            (i # j /\ HeadingsInOrder(AllText(k_pages), k_headings[i], k_headings[j])) =>
                TwoChunks(AllText(k_pages), k_headings[i], k_headings[j], k_chunks)

\* the headings are listed as B, A and found as A, then body text, then B
C14_Witness ==
    /\ kpc = "returned"
    /\ k_headings = << <<"B">>, <<"A">> >>
    /\ k_pages = << <<"A", "\n", "x", "\n", "B">> >>
    /\ Len(k_chunks) = 2
    /\ k_chunks[1].content = <<"A", "\n", "x">> /\ k_chunks[2].content = <<"B">>


-----------------------------------------------------------------------------
(* The service: index-build failures and the domain of a query *)

\* C11: a failed index build is never swallowed: a key that cache-status
\* reports as ready always holds a built (non-null) retriever that query-pdfs
\* can search.
C11_ReadyMeansBuilt ==
    (a_response.endpoint = "cache-status" /\ a_response.ready)
        => pdf_cache[a_response.cache_key].retriever # NoRetriever

\* C16: the domain reported in the metadata of a served query, which is the
\* domain selected from the query's persona and task, is the domain whose
\* BM25 (k1, b) parameters and fusion weights produced the returned scores.
C16_QueryDomainApplied ==
    (a_response.endpoint = "query-pdfs" /\ a_response.status = 200)
        => /\ a_response.params = bm25_params[a_response.domain]
           /\ a_response.weights = hybrid_weights[a_response.domain]

-----------------------------------------------------------------------------
(* The headingness score *)

\* C21: the headingness score detect_heading_level computes for a span is an
\* integer between 0 and 11 inclusive.
C21_ScoreUpTo11 ==
    gpc = "scored" => g_score \in 0..11

\* C21, amended: the headingness score detect_heading_level computes for a span
\* is an integer between 0 and 12 inclusive (3 for the font ratio, 2 for bold,
\* 1 for italic, 3 for a pattern, and 1 each for alignment, word count and
\* page).
C21_ScoreRange ==
    gpc = "scored" => g_score \in 0..12

C21_Witness ==
    gpc = "scored" /\ g_score = 12

\* C22: the left-alignment bonus is awarded to a span exactly when its block
\* starts horizontally within 10% of the page width from the left edge
\* (x0 / page_width < 0.1); the vertical position does not influence it.
C22_LeftAlignment ==
    gpc = "scored" => (g_left <=> 10 * g_el.x_position.num < g_el.x_position.den)

\* C23: the first-page bonus is awarded to a span exactly when the span lies
\* on the first page of the document (page index 0), and to no span of any
\* other page.
C23_FirstPage ==
    gpc = "scored" => (g_first <=> g_el.page = 0)

-----------------------------------------------------------------------------
(* The greedy, diverse selection *)

\* the chunks still in remaining when rank r is picked: not picked before, and
\* neither of the document of, nor similar in heading to, a chunk picked before
EligibleAt(r) ==
    {i \in 1..Len(chunks) :
        \A q \in 1..(r - 1) :
            /\ i # top_idx[q]
            /\ chunks[i].pdf_name # chunks[top_idx[q]].pdf_name
            /\ ~TooSimilar(chunks[i].heading, chunks[top_idx[q]].heading)}

\* C24: results come in greedy order: ranks are exactly 1..n, the result of
\* rank r is the chunk with the highest hybrid score among the candidates
\* still eligible when it is picked, ties going to the lowest chunk index; so
\* hybrid_score is non-increasing in rank, and when all scores are equal the
\* first result is the first chunk.
C24_GreedyOrder ==
    spc = "searched" =>
        /\ Len(results) = Len(top_idx)
        /\ \A r \in 1..Len(results) :
              /\ results[r].importance_rank = r
              /\ results[r].hybrid_score = hybrid_scores[top_idx[r]]
              /\ top_idx[r] \in EligibleAt(r)
              /\ \A i \in EligibleAt(r) :
                    /\ hybrid_scores[i] <= hybrid_scores[top_idx[r]]
                    /\ hybrid_scores[i] = hybrid_scores[top_idx[r]] => top_idx[r] <= i
        /\ \A r \in 1..(Len(results) - 1) :
              results[r].hybrid_score >= results[r + 1].hybrid_score
        /\ (results # <<>> /\ \A i \in 1..Len(chunks) : hybrid_scores[i] = hybrid_scores[1])
              => top_idx[1] = 1

\* two results, the first picked among chunks of equal score
C24_Witness ==
    /\ spc = "searched" /\ Len(results) >= 2
    /\ \E i \in 1..Len(chunks) :
          i # top_idx[1] /\ hybrid_scores[i] = hybrid_scores[top_idx[1]]

\* C25: in every result list, for ranks i < j, the similarity of result j's
\* heading to result i's heading (compared case-insensitively) does not exceed
\* the diversity threshold 0.3.
C25_DiverseHeadings ==
    spc = "searched" =>
        \A i, j \in 1..Len(results) :
            i < j => ~TooSimilar(results[j].heading, results[i].heading)

\* two results, and a chunk of another document left out for its heading
C25_Witness ==
    /\ spc = "searched" /\ Len(results) >= 2
    /\ \E i \in 1..Len(chunks) :
          /\ \A r \in 1..Len(top_idx) : top_idx[r] # i
          /\ chunks[i].pdf_name # chunks[top_idx[1]].pdf_name
          /\ TooSimilar(chunks[i].heading, chunks[top_idx[1]].heading)

\* C26: diverse_top_k never returns more than k indices or the same index
\* twice (none for k <= 0), and it returns fewer than k only when no eligible
\* candidate is left: then every chunk not in the result shares its pdf_name
\* with, or has heading similarity above the threshold to, some chunk in the
\* result.
C26_AtMostK ==
    spc = "searched" =>
        /\ top_k <= 0 => top_idx = <<>>
        /\ top_k > 0 => Len(top_idx) <= top_k
        /\ \A p, q \in 1..Len(top_idx) : p # q => top_idx[p] # top_idx[q]
        /\ Len(top_idx) < top_k =>
              \A i \in 1..Len(chunks) :
                  (\A r \in 1..Len(top_idx) : top_idx[r] # i) =>
                      \E r \in 1..Len(top_idx) :
                          \/ chunks[i].pdf_name = chunks[top_idx[r]].pdf_name
                          \/ TooSimilar(chunks[i].heading, chunks[top_idx[r]].heading)

\* fewer than k results although chunks are left
C26_Witness ==
    /\ spc = "searched" /\ top_idx # <<>>
    /\ Len(top_idx) < top_k /\ Len(top_idx) < Len(chunks)

-----------------------------------------------------------------------------
(* Near-duplicates after the cleaning pass *)

\* the input entries as the pass stores them: text stripped
StrippedInput ==
    [p \in 1..Len(c_input.outline) |->
        [level |-> c_input.outline[p].level, text |-> Strip(c_input.outline[p].text),
         page |-> c_input.outline[p].page]]

\* no entry of the cleaned outline is a near-duplicate of the title or of an
\* entry before it
NoNearDuplicates(out, t) ==
    \A j \in 1..Len(out) :
        /\ CleanTitle(t) # <<>> => ~texts_are_similar(out[j].text, CleanTitle(t))
        /\ \A i \in 1..(j - 1) : ~texts_are_similar(out[j].text, out[i].text)

\* the first position of entry e in the input
FirstPos(e) == CHOOSE p \in 1..Len(StrippedInput) :
                  StrippedInput[p] = e /\ \A q \in 1..(p - 1) : StrippedInput[q] # e

\* the entry is neither too short, nor like the title, nor a date reference
PassesFilters(e, t) ==
    /\ e.text # <<>> /\ Len(normalize_text(e.text)) >= 2
    /\ ~(CleanTitle(t) # <<>> /\ texts_are_similar(e.text, CleanTitle(t)))
    /\ ~contains_date_or_time_reference(e.text)

\* C27: after the cleaning pass, no entry of the outline is a near-duplicate
\* of the title or of any entry that precedes it in the outline, whatever the
\* levels and pages; and of each group of duplicates the first occurrence in
\* input order is the one kept: no input entry before a kept entry is a
\* near-duplicate of it.
C27_FirstOfGroupKept ==
    cpc = "once" =>
        /\ IsSubseq(c_once.outline, StrippedInput)
        /\ NoNearDuplicates(c_once.outline, c_input.title)
        /\ \A j \in 1..Len(c_once.outline) :
              \A p \in 1..(FirstPos(c_once.outline[j]) - 1) :
                  ~texts_are_similar(c_once.outline[j].text, StrippedInput[p].text)

\* C27, amended: after the cleaning pass, no entry of the outline is a
\* near-duplicate of the title or of any entry that precedes it in the
\* outline, whatever the levels and pages; the outline keeps the input order,
\* and every input entry that is long enough, unlike the title and free of
\* date references is either kept or a near-duplicate of a kept entry that
\* comes before it in the input.
C27_NoNearDuplicates ==
    cpc = "once" =>
        /\ IsSubseq(c_once.outline, StrippedInput)
        /\ NoNearDuplicates(c_once.outline, c_input.title)
        /\ \A p \in 1..Len(StrippedInput) :
              PassesFilters(StrippedInput[p], c_input.title) =>
                  \E q \in 1..p :
                      /\ \E j \in 1..Len(c_once.outline) : c_once.outline[j] = StrippedInput[q]
                      /\ q = p \/ texts_are_similar(StrippedInput[p].text, StrippedInput[q].text)

\* two entries of different level and page, the second dropped as a
\* near-duplicate of the first
C27_Witness ==
    /\ cpc = "once" /\ Len(c_input.outline) = 2 /\ Len(c_once.outline) = 1
    /\ c_input.outline[1].level # c_input.outline[2].level
    /\ c_input.outline[1].page # c_input.outline[2].page
    /\ c_input.outline[1].text # c_input.outline[2].text
    /\ PassesFilters(StrippedInput[2], c_input.title)
    /\ c_once.outline[1] = StrippedInput[1]

-----------------------------------------------------------------------------
(* The service: background tasks and the persisted project *)

\* the background task of the key has returned
TaskOver(key) == a_tasks[key].pc = "done"

\* the entry of the key is still the one written before the task started
Processing(key) == pdf_cache[key] # Absent /\ "processing" \in DOMAIN pdf_cache[key]

\* C28: every cache key for which background processing was started leaves
\* the processing state: once the background task has finished, normally or
\* by any exception (a failure while persisting the project state included),
\* the entry of the key is a terminal entry (retriever present, empty, or
\* error) and is not left as {processing: true}.
C28_LeavesProcessing ==
    \A key \in Keys : TaskOver(key) => ~Processing(key)

\* the task of the key ran to its end and published its entry
Completed(key) == TaskOver(key) /\ ~Processing(key)

\* C29: no update to a project is lost under concurrency: when two requests
\* for the project each added a different new PDF and both background tasks
\* have completed, the persisted meta lists both files and the persisted
\* chunks contain the chunks of both.
C29_NoLostUpdate ==
    \A k1, k2 \in Keys :
        (k1 # k2 /\ Completed(k1) /\ Completed(k2)
         /\ SeqToSet(a_tasks[k1].new_files_meta) \cap SeqToSet(a_tasks[k2].new_files_meta) = {})
        => \A f \in SeqToSet(a_tasks[k1].new_files_meta \o a_tasks[k2].new_files_meta) :
              /\ f \in SeqToSet(a_meta.files)
              /\ SeqToSet(ChunksOfPdf(f)) \subseteq SeqToSet(a_chunks)

\* no element occurs twice
NoRepeat(q) == \A i, j \in 1..Len(q) : i # j => q[i] # q[j]

\* C30: after any sequence of cache-pdfs and append-pdf requests on a project,
\* no two file records of the persisted meta have the same content hash and
\* the chunks of a given PDF content appear at most once in the persisted
\* chunks, also when the same content is uploaded twice within one request.
C30_OnlyNewProcessed ==
    /\ a_meta.exists => NoRepeat(a_meta.files)
    /\ NoRepeat(a_chunks)

=============================================================================
